---- MODULE Spec2Model ----
(***************************************************************************)
(* Model of the Multipass VM lifecycle manager of multipass-zephyr:        *)
(* west_commands/multipass_vm.py (class MultipassVM) and the front-end     *)
(* commands vbuild / vtwister that drive it.                               *)
(*                                                                         *)
(* The virtualization platform is external.  Each command sent to it may   *)
(* fail (a nonzero exit); a command that succeeds has its nominal effect.  *)
(* The set F of an operation names the commands that fail in that call.    *)
(***************************************************************************)
EXTENDS Integers, Sequences, FiniteSets, TLC

VARIABLES
    vm,       \* the instance on the platform: [state, cpus, mem]; state "absent" = not listed
    others,   \* the other instances `multipass list` reports: Seq of [name, state]
    guest,    \* what is installed inside the guest: a set of component names
    arch,     \* `uname -m` of the guest
    mounts,   \* the platform's mount table of the instance: guest path -> host path
    host,     \* the host the tool runs on: [cores, memMiB, detect]
    obj,      \* the MultipassVM object's target_cpus / target_memory attributes
    platform, \* how the platform behaves where the code cannot tell: [canon]
    fs,       \* the guest's two trees: [mnt, loc, pre], the mounted workspace, its local
              \* mirror, and the mirror as the last sync_to_local found it
    bashrc,   \* the lines provisioning has appended to /home/ubuntu/.bashrc, in order
    fe,       \* the front-end command in progress: its arguments, its position, its calls
    last,     \* the record of the last call: what was called, what it issued, how it ended
    hist      \* the calls before it, most recent first, since the last external change

vars == <<vm, others, guest, arch, mounts, host, obj, platform, fs, bashrc, fe, last, hist>>

\* what an action leaves alone unless it names it: the host, the other instances,
\* the platform's behaviour, the guest's architecture and trees.  The login profile
\* is followed by the operations of SpecProfile; no other operation reads it.
fixed == <<others, arch, host, platform, fs, bashrc>>

-----------------------------------------------------------------------------
(* Bounds of the model *)

\* at most this many commands fail within one call
MaxFaults == 1
\* how many earlier calls hist remembers
HistLen == 2

-----------------------------------------------------------------------------
(* Program constants: MultipassVM.__init__ *)

vm_name == "zephyr-vm"
default_cpus == 2
default_memory == "4G"

\* MiB per GiB: the unit host memory is measured in here (the code counts bytes)
GiB == 1024

\* None, for a CPU count and for a memory string
NoCpus == 0
NoMem == ""

-----------------------------------------------------------------------------
(* The platform's inventory and get_status *)

\* The power states `multipass list` reports, as it prints them
RawStates == {"Running", "Stopped", "Suspended"}

\* str.lower() on the states the platform prints
Lower(s) ==
    CASE s = "Running"   -> "running"
      [] s = "Stopped"   -> "stopped"
      [] s = "Suspended" -> "suspended"
      [] OTHER           -> s

\* json.loads(result.stdout).get('list', []): the other instances, then ours if it exists
Inventory ==
    others \o (IF vm.state = "absent" THEN <<>>
               ELSE <<[name |-> vm_name, state |-> vm.state]>>)

RECURSIVE ScanList(_, _)
ScanList(vms, name) ==
    IF vms = <<>> THEN "not-found"
    ELSE IF Head(vms).name = name THEN Lower(Head(vms).state)
    ELSE ScanList(Tail(vms), name)

GetStatusMatchAny(vms) ==
    IF vms = <<>> THEN "not-found" ELSE Lower(Head(vms).state)

\* get_status: the first listed instance named vm_name decides
GetStatus(vms) == ScanList(vms, vm_name)

-----------------------------------------------------------------------------
(* Commands and results *)

Cmd(c, n, s, ok) == [cmd |-> c, n |-> n, s |-> s, ok |-> ok]
Ok(c) == Cmd(c, 0, "", TRUE)
Failed(c) == Cmd(c, 0, "", FALSE)

\* what a call leaves behind: the instance, the guest, the object, the commands, normal return?
Result(v, g, o, cmds, ok) == [vm |-> v, guest |-> g, obj |-> o, cmds |-> cmds, ok |-> ok]

IsPrefix(s, t) == Len(s) <= Len(t) /\ SubSeq(t, 1, Len(s)) = s

Issued(cmds, names) == {i \in 1..Len(cmds) : cmds[i].cmd \in names}

FaultSets(points) == {F \in SUBSET points : Cardinality(F) <= MaxFaults}

-----------------------------------------------------------------------------
(* Resource Scaler *)

Max(a, b) == IF a >= b THEN a ELSE b
Min(a, b) == IF a <= b THEN a ELSE b

\* int(x / d) of Python for an integer x: truncation toward zero
TruncDiv(x, d) == IF x >= 0 THEN x \div d ELSE -((-x) \div d)

\* f"{n}G"
MemStr(n) == ToString(n) \o "G"

\* total_mem_bytes as get_host_resources finds it, in MiB
TotalMem(h) ==
    CASE h.detect = "ok"        -> h.memMiB
      [] h.detect = "exception" -> 8 * GiB
      [] OTHER                  -> 0

\* get_host_resources without the cap at total - 4 GiB
GetHostResourcesNoCap(h) ==
    LET safe_cpus == Max(2, h.cores - 2)
        total     == TotalMem(h)
        limit     == (total * 3) \div 4
        safe_gb   == Max(4, TruncDiv(limit, GiB))
    IN  <<safe_cpus, MemStr(safe_gb)>>

\* get_host_resources
GetHostResources(h) ==
    LET safe_cpus == Max(2, h.cores - 2)
        total     == TotalMem(h)
        limit     == Min((total * 3) \div 4, total - 4 * GiB)
        safe_gb   == Max(4, TruncDiv(limit, GiB))
    IN  <<safe_cpus, MemStr(safe_gb)>>

ResolveProfile(profile, h) ==
    IF profile = "high" THEN GetHostResources(h) ELSE <<default_cpus, default_memory>>

\* get_current_resources: (None, None) when either `multipass get` fails
GetCurrentResources(v, F) ==
    IF "get_cpus" \in F \/ "get_mem" \in F THEN <<NoCpus, NoMem>> ELSE <<v.cpus, v.mem>>

GetLog(F) ==
    IF "get_cpus" \in F THEN <<Failed("get")>>
    ELSE IF "get_mem" \in F THEN <<Ok("get"), Failed("get")>>
    ELSE <<Ok("get"), Ok("get")>>

\* the two set commands with no start after them
ApplySettingsNoStart(v, tgt, F, log) ==
    Result([v EXCEPT !.cpus = tgt[1], !.mem = tgt[2]], guest, obj,
           log \o <<Cmd("set_cpus", tgt[1], "", TRUE), Cmd("set_mem", 0, tgt[2], TRUE)>>, TRUE)

\* ensure_resources, lines 164-168: set cpus, set memory, start; each may raise
ApplySettings(v, tgt, F, log) ==
    IF "set_cpus" \in F THEN Result(v, guest, obj, Append(log, Failed("set_cpus")), FALSE)
    ELSE LET v2 == [v EXCEPT !.cpus = tgt[1]]
             log2 == Append(log, Cmd("set_cpus", tgt[1], "", TRUE))
         IN  IF "set_mem" \in F
             THEN Result(v2, guest, obj, Append(log2, Failed("set_mem")), FALSE)
             ELSE LET v3 == [v2 EXCEPT !.mem = tgt[2]]
                      log3 == Append(log2, Cmd("set_mem", 0, tgt[2], TRUE))
                  IN  IF "start" \in F
                      THEN Result(v3, guest, obj, Append(log3, Failed("start")), FALSE)
                      ELSE Result([v3 EXCEPT !.state = "Running"], guest, obj,
                                  Append(log3, Ok("start")), TRUE)

ReconfigureNoStop(v, status, tgt, F, log) == ApplySettings(v, tgt, F, log)

\* ensure_resources, lines 160-168: stop if running, then apply the settings and start
Reconfigure(v, status, tgt, F, log) ==
    IF status = "running" /\ "stop" \in F
    THEN Result(v, guest, obj, Append(log, Failed("stop")), FALSE)
    ELSE LET v1 == IF status = "running" THEN [v EXCEPT !.state = "Stopped"] ELSE v
             log1 == IF status = "running" THEN Append(log, Ok("stop")) ELSE log
         IN  ApplySettings(v1, tgt, F, log1)

NeedsChangeAlways(cur, tgt) == TRUE
NeedsChangeBoth(cur, tgt) == cur[1] # tgt[1] /\ cur[2] # tgt[2]

\* ensure_resources, line 157
NeedsChange(cur, tgt) == cur[1] # tgt[1] \/ cur[2] # tgt[2]

\* ensure_resources(profile) under the faults F
EnsureResources(profile, F) ==
    IF "list" \in F THEN Result(vm, guest, obj, <<Failed("list")>>, FALSE)
    ELSE
    LET status == GetStatus(Inventory)
        tgt    == ResolveProfile(profile, host)
    IN  IF status = "not-found"
        THEN Result(vm, guest, [target_cpus |-> tgt[1], target_memory |-> tgt[2]],
                    <<Ok("list")>>, TRUE)
        ELSE
        LET cur == GetCurrentResources(vm, F)
            log == <<Ok("list")>> \o GetLog(F)
        IN  IF NeedsChange(cur, tgt)
            THEN IF "list2" \in F
                 THEN Result(vm, guest, obj, Append(log, Failed("list")), FALSE)
                 ELSE Reconfigure(vm, GetStatus(Inventory), tgt, F, Append(log, Ok("list")))
            ELSE Result(vm, guest, obj, log, TRUE)

ScalerFaults == FaultSets({"list", "get_cpus", "get_mem", "list2", "stop",
                           "set_cpus", "set_mem", "start"})

-----------------------------------------------------------------------------
(* Provisioning Engine *)

\* _is_setup: the executables looked up with `which`, in this order, then the
\* runtime-environment directory, then the SDK directory
RequiredTools == <<"west", "cmake", "ninja", "brctl", "uv">>
RequiredDirs == <<"venv", "sdk">>
Components == {"west", "cmake", "ninja", "brctl", "uv", "venv", "sdk", "ccache"}

RECURSIVE FirstMissing(_, _)
FirstMissing(required, g) ==
    IF required = <<>> THEN ""
    ELSE IF Head(required) \notin g THEN Head(required)
    ELSE FirstMissing(Tail(required), g)

IsSetupToolsOnly(g) == FirstMissing(RequiredTools, g) = ""

\* _is_setup: true when nothing required is missing
IsSetup(g) == FirstMissing(RequiredTools \o RequiredDirs, g) = ""

\* the probe as the log records it: what was found missing first, and the answer
IsSetupCmd(g) == Cmd("is_setup", 0, FirstMissing(RequiredTools \o RequiredDirs, g), IsSetup(g))

SupportedArch == {"x86_64", "aarch64"}

\* what the apt-get install of step 1 puts on PATH, of the things the model tracks
AptProvides == {"cmake", "ninja", "brctl", "ccache"}

\* the mount-helper workaround as a step that raises when it fails
StepHelperFatal(st, F) ==
    [st EXCEPT !.cmds = Append(@, Cmd("setup", 0, "helper", "helper" \notin F)),
               !.ok = "helper" \notin F]

\* _setup_vm, line 178: exec_shell(..., check=False) of the mount-helper workaround
StepHelper(st, F) ==
    [st EXCEPT !.cmds = Append(@, Cmd("setup", 0, "helper", "helper" \notin F))]

\* _setup_vm, line 201: exec_shell(install_cmd); the exit code is dropped
StepApt(st, F) ==
    IF "apt" \in F THEN [st EXCEPT !.cmds = Append(@, Cmd("setup", 1, "apt", FALSE))]
    ELSE [st EXCEPT !.guest = @ \cup AptProvides,
                    !.cmds = Append(@, Cmd("setup", 1, "apt", TRUE))]

\* _setup_vm, lines 204-237: the SDK script under `set -e`; the exit code is dropped
StepSdk(st, F) ==
    IF arch \notin SupportedArch
    THEN [st EXCEPT !.cmds = Append(@, Cmd("setup", 2, "sdk", FALSE))]
    ELSE IF "sdk" \in st.guest
    THEN [st EXCEPT !.cmds = Append(@, Cmd("setup", 2, "sdk", TRUE))]
    ELSE IF "sdk_download" \in F
    THEN [st EXCEPT !.cmds = Append(@, Cmd("setup", 2, "sdk", FALSE))]
    ELSE [st EXCEPT !.guest = @ \cup {"sdk"},
                    !.cmds = Append(@, Cmd("setup", 2, "sdk", "sdk_post" \notin F))]

\* _setup_vm, line 247: curl ... | sh; the exit code is dropped
StepUv(st, F) ==
    IF "uv" \in F THEN [st EXCEPT !.cmds = Append(@, Cmd("setup", 3, "uv", FALSE))]
    ELSE [st EXCEPT !.guest = @ \cup {"uv"},
                    !.cmds = Append(@, Cmd("setup", 3, "uv", TRUE))]

\* _setup_vm, line 248: uv venv /home/ubuntu/.venv; the exit code is dropped
StepVenv(st, F) ==
    IF "venv" \in F \/ "uv" \notin st.guest
    THEN [st EXCEPT !.cmds = Append(@, Cmd("setup", 4, "venv", FALSE))]
    ELSE [st EXCEPT !.guest = @ \cup {"venv"},
                    !.cmds = Append(@, Cmd("setup", 4, "venv", TRUE))]

\* _setup_vm, line 251: uv pip install west; the exit code is dropped
StepWest(st, F) ==
    IF "west" \in F \/ "uv" \notin st.guest \/ "venv" \notin st.guest
    THEN [st EXCEPT !.cmds = Append(@, Cmd("setup", 5, "west", FALSE))]
    ELSE [st EXCEPT !.guest = @ \cup {"west"},
                    !.cmds = Append(@, Cmd("setup", 5, "west", TRUE))]

\* _setup_vm, lines 254-260: three appends to .bashrc, then two ccache settings
EnvCmds == <<"env_toolchain", "env_sdk_dir", "env_path", "ccache_size", "ccache_dir">>

EnvCmdFails(c, g, F) == c \in F \/ (c \in {"ccache_size", "ccache_dir"} /\ "ccache" \notin g)

\* _setup_vm, lines 261-262: _run_cmd with check=True raises on the first failure
RECURSIVE StepEnv(_, _, _)
StepEnv(st, todo, F) ==
    IF todo = <<>> THEN st
    ELSE IF EnvCmdFails(Head(todo), st.guest, F)
    THEN [st EXCEPT !.cmds = Append(@, Cmd("setup", 6, Head(todo), FALSE)), !.ok = FALSE]
    ELSE StepEnv([st EXCEPT !.cmds = Append(@, Cmd("setup", 6, Head(todo), TRUE))],
                 Tail(todo), F)

\* _setup_vm, lines 255-257: the line each `echo '...' >> /home/ubuntu/.bashrc` appends
ExportLine(c) ==
    CASE c = "env_toolchain" -> "export ZEPHYR_TOOLCHAIN_VARIANT=zephyr"
      [] c = "env_sdk_dir"   -> "export ZEPHYR_SDK_INSTALL_DIR=/home/ubuntu/zephyr-sdk"
      [] c = "env_path"      -> "export PATH=$PATH:$HOME/.local/bin"

ProfileCmds == {"env_toolchain", "env_sdk_dir", "env_path"}

Appends(c) == c.cmd = "setup" /\ c.n = 6 /\ c.s \in ProfileCmds /\ c.ok

\* the profile p after the commands cmds: `>>` appends, whatever the file holds
RECURSIVE AppendExports(_, _)
AppendExports(p, cmds) ==
    IF cmds = <<>> THEN p
    ELSE LET c == Head(cmds)
         IN  AppendExports(IF Appends(c) THEN Append(p, ExportLine(c.s)) ELSE p, Tail(cmds))

\* the profile of a guest that was provisioned once, and of a new guest
InitialProfile(g) ==
    IF g = {} THEN <<>> ELSE <<ExportLine("env_toolchain"), ExportLine("env_sdk_dir"),
                               ExportLine("env_path")>>

\* _setup_vm, lines 240-243: raise RuntimeError when the SDK directory is not there
VerifySdk(st) ==
    IF "sdk" \in st.guest THEN st
    ELSE [st EXCEPT !.cmds = Append(@, Cmd("setup", 2, "verify_sdk", FALSE)), !.ok = FALSE]

\* _setup_vm on the result st so far (st.ok holds): the steps in order
SetupVM(st, F) ==
    LET s3 == VerifySdk(StepSdk(StepApt(StepHelper(st, F), F), F))
    IN  IF ~s3.ok THEN s3
        ELSE StepEnv(StepWest(StepVenv(StepUv(s3, F), F), F), EnvCmds, F)

SetupIfNeededAlways(st, F) == SetupVM([st EXCEPT !.cmds = Append(@, IsSetupCmd(st.guest))], F)

\* ensure_vm, lines 90-96: provision unless _is_setup
SetupIfNeeded(st, F) ==
    LET probed == [st EXCEPT !.cmds = Append(@, IsSetupCmd(st.guest))]
    IN  IF IsSetup(st.guest) THEN probed ELSE SetupVM(probed, F)

\* ensure_vm(zephyr_base_path, cpus, memory) under the faults F
EnsureVM(cpus, memory, F) ==
    IF "list" \in F THEN Result(vm, guest, obj, <<Failed("list")>>, FALSE)
    ELSE
    LET status      == GetStatus(Inventory)
        target_cpus == IF cpus # NoCpus THEN cpus ELSE default_cpus
        target_mem  == IF memory # NoMem THEN memory ELSE default_memory
        st          == Result(vm, guest, obj, <<Ok("list")>>, TRUE)
    IN  CASE status = "not-found" ->
               IF "launch" \in F
               THEN [st EXCEPT !.cmds = Append(@, Cmd("launch", target_cpus, target_mem, FALSE)),
                               !.ok = FALSE]
               ELSE SetupVM([st EXCEPT
                               !.vm = [state |-> "Running", cpus |-> target_cpus,
                                       mem |-> target_mem],
                               !.guest = {},
                               !.cmds = Append(@, Cmd("launch", target_cpus, target_mem, TRUE))],
                            F)
          [] status = "stopped" ->
               IF "start" \in F
               THEN [st EXCEPT !.cmds = Append(@, Failed("start")), !.ok = FALSE]
               ELSE SetupIfNeeded([st EXCEPT !.vm.state = "Running",
                                             !.cmds = Append(@, Ok("start"))], F)
          [] status = "running" -> SetupIfNeeded(st, F)
          [] OTHER -> st

ProvisionFaults == FaultSets({"list", "launch", "start", "helper", "apt", "sdk_download",
                              "sdk_post", "uv", "venv", "west"} \cup
                             {EnvCmds[i] : i \in DOMAIN EnvCmds})

-----------------------------------------------------------------------------
(* Path Virtualizer *)

\* A host path is the sequence of its components; the platform and the guest see
\* paths as strings.
RECURSIVE Join(_)
Join(parts) == IF parts = <<>> THEN "" ELSE Head(parts) \o Join(Tail(parts))

RECURSIVE PathStr(_)
PathStr(p) == IF p = <<>> THEN "" ELSE "/" \o Head(p) \o PathStr(Tail(p))

\* Path.resolve() on this host: /tmp is a symbolic link to /private/tmp, and /lnk
\* one to the workspace root /a
Resolve(p) ==
    IF p # <<>> /\ Head(p) = "tmp" THEN <<"private">> \o p
    ELSE IF p # <<>> /\ Head(p) = "lnk" THEN <<"a">> \o Tail(p)
    ELSE p

\* The host paths the front-ends are given: the workspace root, a directory in it,
\* two directories outside it, one outside it reached through a symbolic link, and
\* one in it reached through a symbolic link.
WorkspaceRoot == <<"a">>
HostPaths == { <<"a">>, <<"a", "b", "c">>, <<"etc", "external">>, <<"opt", "zephyr">>,
               <<"tmp", "out">>, <<"lnk", "b">> }

\* hashlib.md5(s.encode()).hexdigest(): 32 hex digits.  The table stands for md5 on
\* the paths of the model; two of them agree on their first 8 digits.
Zeros(n) == [i \in 1..n |-> "0"]

Md5Hex(s) ==
    CASE s = "/etc/external"    -> <<"3", "f", "2", "a", "9", "1", "c", "7", "5", "e">> \o Zeros(22)
      [] s = "/opt/zephyr"      -> <<"3", "f", "2", "a", "9", "1", "c", "7", "d", "4">> \o Zeros(22)
      [] s = "/tmp/out"         -> <<"b", "0", "7", "e", "5", "d", "1", "4", "8", "8">> \o Zeros(22)
      [] s = "/private/tmp/out" -> <<"c", "8", "1", "d", "2", "2", "e", "9", "0", "6">> \o Zeros(22)
      [] s = "/a"               -> <<"0", "c", "c", "1", "7", "5", "b", "9", "c", "0">> \o Zeros(22)
      [] OTHER                  -> <<"9", "2", "e", "b", "5", "f", "f", "e", "e", "6">> \o Zeros(22)

\* hexdigest()[:8]
Fingerprint(s) == SubSeq(Md5Hex(s), 1, 8)

\* what a call on the mount table leaves behind: the table, the commands, normal
\* return?, the guest path returned
MResult(mt, cmds, ok, ret) == [mounts |-> mt, cmds |-> cmds, ok |-> ok, ret |-> ret]

\* the restriction of the mount table to the other guest paths
Unbind(mt, g) == [x \in DOMAIN mt \ {g} |-> mt[x]]

\* the source path the platform records for `multipass mount <host> vm:<guest>`:
\* as given, or made canonical; the code cannot tell which
RecordedSource(host_path) ==
    IF platform.canon THEN PathStr(Resolve(host_path)) ELSE PathStr(host_path)

Bind(mt, g, src) == [x \in DOMAIN mt \cup {g} |-> IF x = g THEN src ELSE mt[x]]

SameSourceAlways(recorded, host_path) == TRUE

\* mount, line 295: the recorded source against the resolved host path
SameSource(recorded, host_path) == recorded = PathStr(Resolve(host_path))

\* mount(host_path, vm_path) on the mount table mt under the faults F
Mount(mt, host_path, vm_path, F) ==
    LET arg == PathStr(host_path) \o " " \o vm_path
    IN
    IF "mkdir" \in F THEN MResult(mt, <<Failed("mkdir")>>, FALSE, "")
    ELSE IF "info" \in F THEN MResult(mt, <<Ok("mkdir"), Failed("info")>>, FALSE, "")
    ELSE
    LET log == <<Ok("mkdir"), Ok("info")>>
        bound == vm_path \in DOMAIN mt
    IN  IF bound /\ SameSource(mt[vm_path], host_path) THEN MResult(mt, log, TRUE, "")
        ELSE IF bound /\ "unmount" \in F
        THEN MResult(mt, Append(log, Cmd("unmount", 0, vm_path, FALSE)), FALSE, "")
        ELSE LET mt1 == IF bound THEN Unbind(mt, vm_path) ELSE mt
                 log1 == IF bound THEN Append(log, Cmd("unmount", 0, vm_path, TRUE)) ELSE log
             IN  IF "mount" \in F
                 THEN MResult(mt1, Append(log1, Cmd("mount", 0, arg, FALSE)), FALSE, "")
                 ELSE MResult(Bind(mt1, vm_path, RecordedSource(host_path)),
                              Append(log1, Cmd("mount", 0, arg, TRUE)), TRUE, "")

VmWorkspace == <<"mnt", "workspace_vbuild">>

\* get_vm_path(host_path) of vbuild and vtwister, with workspace_root and vm_workspace
\* of the enclosing call
GetVmPath(mt, host_path, workspace_root, vm_workspace, F) ==
    IF IsPrefix(workspace_root, host_path)
    THEN MResult(mt, <<>>, TRUE,
                 PathStr(vm_workspace \o SubSeq(host_path, Len(workspace_root) + 1,
                                                Len(host_path))))
    ELSE LET vm_path == "/mnt/ext_" \o Join(Fingerprint(PathStr(host_path)))
             r == Mount(mt, host_path, vm_path, F)
         IN  [r EXCEPT !.ret = IF r.ok THEN vm_path ELSE ""]

MountFaults == FaultSets({"mkdir", "info", "unmount", "mount"})

-----------------------------------------------------------------------------
(* Sync accelerator: sync_to_local *)

\* A name is <<stem, suffix>> ("x" + ".pyc"); an entry of a tree is the path from
\* the root of the tree, a sequence of names, and whether it is a directory.
Name(stem, suffix) == <<stem, suffix>>
Entry(path, dir) == [path |-> path, dir |-> dir]

\* the entries a tree of the model is made of
Entries ==
    { Entry(<<Name(".git", "")>>, TRUE),
      Entry(<<Name("zephyr", ""), Name(".git", "")>>, TRUE),
      Entry(<<Name("build", "")>>, TRUE),
      Entry(<<Name("app", ""), Name("build", "")>>, TRUE),
      Entry(<<Name("app", ""), Name("x", ".pyc")>>, FALSE),
      Entry(<<Name("app", ""), Name("main", ".c")>>, FALSE) }

NoFiles == [mnt |-> {}, loc |-> {}, pre |-> {}]

Pattern(anchored, dir, kind, text) ==
    [anchored |-> anchored, dir |-> dir, kind |-> kind, text |-> text]

\* the --exclude options of the rsync command, in order
Excludes ==
    << Pattern(TRUE,  TRUE,  "name",   ".git"),
       Pattern(TRUE,  TRUE,  "name",   "build"),
       Pattern(TRUE,  TRUE,  "name",   "builds"),
       Pattern(TRUE,  TRUE,  "prefix", "twister-out"),
       Pattern(FALSE, TRUE,  "name",   "__pycache__"),
       Pattern(FALSE, FALSE, "suffix", ".pyc"),
       Pattern(FALSE, FALSE, "suffix", ".o"),
       Pattern(TRUE,  TRUE,  "name",   ".cache") >>

\* the glob of a pattern against one name
MatchName(pat, name) ==
    CASE pat.kind = "name"   -> name = Name(pat.text, "")
      [] pat.kind = "prefix" -> name[1] = pat.text
      [] pat.kind = "suffix" -> name[2] = pat.text

MatchAtAnyDepth(pat, e, i) ==
    /\ pat.dir => (i < Len(e.path) \/ e.dir)
    /\ MatchName(pat, e.path[i])

\* rsync: a pattern with a leading slash matches at the root of the transfer only,
\* one with a trailing slash matches directories only
MatchAt(pat, e, i) ==
    /\ pat.anchored => i = 1
    /\ pat.dir => (i < Len(e.path) \/ e.dir)
    /\ MatchName(pat, e.path[i])

\* the entry, or a directory above it, matches an exclude pattern
Excluded(e) ==
    \E i \in 1..Len(e.path), k \in DOMAIN Excludes : MatchAt(Excludes[k], e, i)

\* rsync -a --delete <excludes> src/ dst/: what is excluded is neither sent nor
\* deleted at the destination; the rest of the destination becomes the source
Rsync(src, dst) == {e \in src : ~Excluded(e)} \cup {e \in dst : Excluded(e)}

\* sync_to_local(vm_mount_path, vm_local_path): mkdir -p and rsync through
\* exec_shell, whose exit codes are dropped; a failing rsync leaves the mirror
SyncToLocal(f, F) ==
    [f EXCEPT !.loc = IF "rsync" \in F \/ vm.state # "Running" THEN f.loc
                      ELSE Rsync(f.mnt, f.loc),
              !.pre = f.loc]

SyncFaults == FaultSets({"mkdir", "rsync"})

\* vtwister's output directory, relative to the workspace, and the entries of the
\* trees that matter to pulling results
OutDir == <<Name("twister-out", "")>>

OutEntries ==
    { Entry(OutDir \o <<Name("twister", ".json")>>, FALSE),
      Entry(OutDir \o <<Name("keep", ".txt")>>, FALSE),
      Entry(<<Name("app", ""), Name("main", ".c")>>, FALSE) }

Under(dir, tree) == {e \in tree : IsPrefix(dir, e.path)}

\* rsync -a --delete src/dir/ dst/dir/: the directory at the destination becomes
\* the directory at the source
RsyncDelete(src, dst, dir) == (dst \ Under(dir, dst)) \cup Under(dir, src)

\* vtwister, lines 159-176: with --pull-results, and unless --no-sync, mkdir -p and
\* rsync the local output directory back into the mounted workspace (exec_shell:
\* exit codes dropped); then report the results as available on the host
PullResults(f, no_sync, F) ==
    IF no_sync \/ "rsync" \in F \/ vm.state # "Running" THEN [f EXCEPT !.pre = f.mnt]
    ELSE [f EXCEPT !.mnt = RsyncDelete(f.loc, f.mnt, OutDir), !.pre = f.mnt]

PullResultsLog(no_sync, F) ==
    (IF no_sync THEN <<>>
     ELSE <<Cmd("mkdir", 0, "", "mkdir" \notin F /\ vm.state = "Running"),
            Cmd("rsync", 0, "", "rsync" \notin F /\ vm.state = "Running")>>)
    \o <<Ok("report")>>

-----------------------------------------------------------------------------
(* Call history *)

NoCall == [op |-> "none", arg |-> "", ok |-> TRUE, cmds |-> <<>>,
           pre |-> [state |-> "absent", cpus |-> 0, mem |-> ""], pg |-> {}, pm |-> <<>>,
           status |-> "not-found", tgt |-> <<NoCpus, NoMem>>, ret |-> ""]

\* a call as `last` records it: the instance, guest and mount table it found (pre, pg,
\* pm), the status the platform would report, the sizing it aimed at, the commands,
\* normal return?, and (set by the caller) the value returned
Call(op, arg, r, tgt) ==
    [op |-> op, arg |-> arg, ok |-> r.ok, cmds |-> r.cmds, pre |-> vm, pg |-> guest,
     pm |-> mounts, status |-> GetStatus(Inventory), tgt |-> tgt, ret |-> ""]

\* what hist keeps of a call: what it was, how it ended, the sizing it left
Summary(c, v) == [op |-> c.op, arg |-> c.arg, ok |-> c.ok, existed |-> c.pre.state # "absent",
                  cpus |-> v.cpus, mem |-> v.mem]

\* hist after the call c, which left the instance v: the n most recent calls
Remember(h, c, v, n) ==
    IF c.op \in {"none", "env"} THEN h
    ELSE SubSeq(<<Summary(c, v)>> \o h, 1, Min(n, Len(h) + 1))

-----------------------------------------------------------------------------
(* Operations of the resource scaler, called in any order *)

CallEnsureResources ==
    \E profile \in {"low", "high"}, F \in ScalerFaults :
        LET r == EnsureResources(profile, F)
        IN  /\ vm' = r.vm
            /\ obj' = r.obj
            /\ last' = Call("ensure_resources", profile, r, ResolveProfile(profile, host))
            /\ hist' = Remember(hist, last, vm, HistLen)
            /\ UNCHANGED <<fixed, guest, mounts, fe>>

\* The platform and its other users: the instance is created, deleted, stopped,
\* started or suspended behind the tool's back.
EnvPower ==
    \E s \in RawStates \cup {"absent"} :
        /\ s # vm.state
        /\ vm' = [vm EXCEPT !.state = s]
        /\ last' = [NoCall EXCEPT !.op = "env"]
        /\ hist' = <<>>
        /\ UNCHANGED <<fixed, guest, mounts, obj, fe>>

\* ... or resized (`multipass set` by somebody else)
DriftSizing == <<4, "8G">>

EnvResize ==
    /\ vm.state # "absent"
    /\ <<vm.cpus, vm.mem>> # DriftSizing
    /\ vm' = [vm EXCEPT !.cpus = DriftSizing[1], !.mem = DriftSizing[2]]
    /\ last' = [NoCall EXCEPT !.op = "env"]
    /\ hist' = <<>>
    /\ UNCHANGED <<fixed, guest, mounts, obj, fe>>

NoTarget == [target_cpus |-> NoCpus, target_memory |-> NoMem]

\* no front-end command in progress
Idle == [pc |-> "idle", keep_warm |-> FALSE, zephyr_base |-> "unset", calls |-> <<>>]

HostChoices ==
    { [cores |-> 8, memMiB |-> 16 * GiB, detect |-> "ok"],
      [cores |-> 1, memMiB |-> 2 * GiB,  detect |-> "novalue"] }

InitScale ==
    /\ vm \in {[state |-> s, cpus |-> default_cpus, mem |-> default_memory] :
                 s \in {"absent", "Running", "Stopped"}}
    /\ others = <<[name |-> "primary", state |-> "Stopped"]>>
    /\ guest = {}
    /\ arch = "x86_64"
    /\ mounts = <<>>
    /\ host \in HostChoices
    /\ obj = NoTarget
    /\ platform = [canon |-> TRUE]
    /\ fs = NoFiles
    /\ fe = Idle
    /\ last = NoCall
    /\ hist = <<>>
    /\ bashrc = InitialProfile(guest)

NextScale == CallEnsureResources \/ EnvPower \/ EnvResize

SpecScale == InitScale /\ [][NextScale]_vars

-----------------------------------------------------------------------------
(* Operations of the provisioning engine, called in any order *)

\* the (cpus, memory) arguments callers pass: none (vrun), or the recorded target
SizingArgs == {<<NoCpus, NoMem>>, <<6, "12G">>}

CallEnsureVM ==
    \E a \in SizingArgs, F \in ProvisionFaults :
        LET r == EnsureVM(a[1], a[2], F)
        IN  /\ vm' = r.vm
            /\ guest' = r.guest
            /\ mounts' = IF vm.state = "absent" /\ r.vm.state # "absent" THEN <<>> ELSE mounts
            /\ last' = Call("ensure_vm", "", r, a)
            /\ hist' = Remember(hist, last, vm, 1)
            /\ UNCHANGED <<fixed, obj, fe>>

\* somebody removes a component from the guest (or a partial earlier failure left it out)
TamperChoices == {"west", "ninja", "venv", "sdk"}

EnvTamper ==
    \E c \in guest \cap TamperChoices :
        /\ vm.state # "absent"
        /\ guest' = guest \ {c}
        /\ last' = [NoCall EXCEPT !.op = "env"]
        /\ hist' = <<>>
        /\ UNCHANGED <<fixed, vm, mounts, obj, fe>>

\* somebody puts an SDK directory into the guest (unpacked by hand, or part of the
\* image): /home/ubuntu/zephyr-sdk exists whatever the architecture
EnvInstallSdk ==
    /\ vm.state # "absent"
    /\ "sdk" \notin guest
    /\ guest' = guest \cup {"sdk"}
    /\ last' = [NoCall EXCEPT !.op = "env"]
    /\ hist' = <<>>
    /\ UNCHANGED <<fixed, vm, mounts, obj, fe>>

InitVM ==
    /\ vm = [state |-> "absent", cpus |-> default_cpus, mem |-> default_memory]
    /\ others = <<[name |-> "primary", state |-> "Stopped"]>>
    /\ guest = {}
    /\ arch \in {"aarch64", "riscv64"}
    /\ mounts = <<>>
    /\ host \in {h \in HostChoices : h.cores = 8}
    /\ obj = NoTarget
    /\ platform = [canon |-> TRUE]
    /\ fs = NoFiles
    /\ fe = Idle
    /\ last = NoCall
    /\ hist = <<>>
    /\ bashrc = InitialProfile(guest)

NextVM == CallEnsureVM \/ EnvPower \/ EnvTamper \/ EnvInstallSdk

SpecVM == InitVM /\ [][NextVM]_vars

-----------------------------------------------------------------------------
(* Operations of the path virtualizer, called in any order *)

\* the result of a call on the mount table, as a call record
AsResult(r) == Result(vm, guest, obj, r.cmds, r.ok)

CallGetVmPath ==
    \E p \in HostPaths, F \in MountFaults :
        LET r == GetVmPath(mounts, p, WorkspaceRoot, VmWorkspace, F)
        IN  /\ mounts' = r.mounts
            /\ last' = [Call("get_vm_path", PathStr(p), AsResult(r), <<NoCpus, NoMem>>)
                           EXCEPT !.ret = r.ret]
            /\ hist' = Remember(hist, last, vm, 1)
            /\ UNCHANGED <<fixed, vm, guest, obj, fe>>

\* vm.mount(workspace_root, vm_workspace): the workspace of this invocation
WorkspaceChoices == {<<"a">>, <<"w">>}

CallMount ==
    \E p \in WorkspaceChoices, F \in MountFaults :
        LET r == Mount(mounts, p, PathStr(VmWorkspace), F)
        IN  /\ mounts' = r.mounts
            /\ last' = Call("mount", PathStr(p) \o " " \o PathStr(VmWorkspace), AsResult(r),
                             <<NoCpus, NoMem>>)
            /\ hist' = Remember(hist, last, vm, 1)
            /\ UNCHANGED <<fixed, vm, guest, obj, fe>>

\* somebody unmounts a guest path (`multipass unmount`)
EnvUnmount ==
    \E g \in DOMAIN mounts :
        /\ mounts' = Unbind(mounts, g)
        /\ last' = [NoCall EXCEPT !.op = "env"]
        /\ hist' = <<>>
        /\ UNCHANGED <<fixed, vm, guest, obj, fe>>

InitMount ==
    /\ vm = [state |-> "Running", cpus |-> default_cpus, mem |-> default_memory]
    /\ others = <<>>
    /\ guest = Components
    /\ arch = "x86_64"
    /\ mounts = <<>>
    /\ host \in {h \in HostChoices : h.cores = 8}
    /\ obj = NoTarget
    /\ platform \in {[canon |-> b] : b \in BOOLEAN}
    /\ fs = NoFiles
    /\ fe = Idle
    /\ last = NoCall
    /\ hist = <<>>
    /\ bashrc = InitialProfile(guest)

NextMount == CallGetVmPath \/ CallMount \/ EnvUnmount

SpecMount == InitMount /\ [][NextMount]_vars

-----------------------------------------------------------------------------
(* The front-end commands vbuild and vtwister: do_run, one step per call on the VM.
   The two commands have the same do_run and the same steps up to the guest command. *)

PowerCmds == {"launch", "stop", "start", "set_cpus", "set_mem"}

\* the commands of a call that create, stop, start or resize the instance
Power(cmds) == SelectSeq(cmds, LAMBDA c : c.cmd \in PowerCmds)

\* what the invocation keeps of a call it made: the call, how it ended, its power
\* commands, the status the platform reported to it, the sizing it left
FeCall(op, arg, ok, cmds, v) ==
    [op |-> op, arg |-> arg, ok |-> ok, cmds |-> Power(cmds),
     status |-> GetStatus(Inventory), post |-> <<v.cpus, v.mem>>]

Called(fr, op, ok, cmds, v) ==
    [fr EXCEPT !.calls = Append(@, FeCall(op, "", ok, cmds, v))]

UnwindNoFinally(fr) == [fr EXCEPT !.pc = "exit"]

\* an exception (or log.die's SystemExit) leaving _do_run_internal: the finally clause
Unwind(fr) == [fr EXCEPT !.pc = "finally"]

Continue(fr, ok, next) == IF ok THEN [fr EXCEPT !.pc = next] ELSE Unwind(fr)

TargetArgsNone(o) == <<NoCpus, NoMem>>

\* getattr(vm, 'target_cpus', None), getattr(vm, 'target_memory', None)
TargetArgs(o) == <<o.target_cpus, o.target_memory>>

\* $ZEPHYR_BASE, resolved: in the workspace, or outside it
ZephyrBase(z) == IF z = "inside" THEN <<"a", "b", "c">> ELSE <<"opt", "zephyr">>

\* `multipass exec` fails on an instance that is not running
ExecFaults(F) == IF vm.state = "Running" THEN F ELSE F \cup {"mkdir"}

\* do_run: MultipassVM(args.vm_name), is_multipass_installed
FeStart ==
    /\ fe.pc \in {"idle", "exit"}
    /\ \E kw \in BOOLEAN, zb \in {"unset", "inside", "outside"}, installed \in BOOLEAN :
            fe' = [pc |-> IF installed THEN "scale_up" ELSE "exit", keep_warm |-> kw,
                   zephyr_base |-> zb, calls |-> <<>>]
    /\ obj' = NoTarget
    /\ UNCHANGED <<fixed, vm, guest, mounts, last, hist>>

\* the commands that fail in the runs of the front-ends
FrontScalerFaults == FaultSets({"list", "get_cpus", "stop", "set_mem", "start"})

FrontProvisionFaults == FaultSets({"list", "launch", "start"})

\* vm.ensure_resources('high'), before the try
FeScaleUp ==
    /\ fe.pc = "scale_up"
    /\ \E F \in FrontScalerFaults :
          LET r == EnsureResources("high", F)
              fr == [fe EXCEPT !.calls = Append(@, FeCall("ensure_resources", "high", r.ok,
                                                          r.cmds, r.vm))]
          IN  /\ vm' = r.vm
              /\ obj' = r.obj
              /\ fe' = [fr EXCEPT !.pc = IF r.ok THEN "internal" ELSE "exit"]
    /\ UNCHANGED <<fixed, guest, mounts, last, hist>>

\* _do_run_internal up to ensure_vm: ZEPHYR_BASE unset is log.die
FeEnsureVm ==
    /\ fe.pc = "internal"
    /\ IF fe.zephyr_base = "unset"
       THEN /\ fe' = Unwind(Called(fe, "die", FALSE, <<>>, vm))
            /\ UNCHANGED <<vm, guest, mounts>>
       ELSE \E F \in FrontProvisionFaults :
              LET a == TargetArgs(obj)
                  r == EnsureVM(a[1], a[2], F)
              IN  /\ vm' = r.vm
                  /\ guest' = r.guest
                  /\ mounts' = IF vm.state = "absent" /\ r.vm.state # "absent"
                                THEN <<>> ELSE mounts
                  /\ fe' = Continue(Called(fe, "ensure_vm", r.ok, r.cmds, r.vm), r.ok, "mount")
    /\ UNCHANGED <<fixed, obj, last, hist>>

\* vm.mount(workspace_root, vm_workspace), then get_vm_path(zephyr_base)
FeMount ==
    /\ fe.pc = "mount"
    /\ \E F1 \in MountFaults, F2 \in MountFaults :
          LET r1 == Mount(mounts, WorkspaceRoot, PathStr(VmWorkspace), ExecFaults(F1))
              r2 == GetVmPath(r1.mounts, ZephyrBase(fe.zephyr_base), WorkspaceRoot,
                              VmWorkspace, ExecFaults(F2))
              r  == IF r1.ok THEN [r2 EXCEPT !.cmds = r1.cmds \o @] ELSE r1
          IN  /\ mounts' = r.mounts
              /\ fe' = Continue(Called(fe, "mount", r.ok, r.cmds, vm), r.ok, "sync")
    /\ UNCHANGED <<fixed, vm, guest, obj, last, hist>>

\* sync_to_local and get_local_path(zephyr_base), unless --no-sync: relative_to
\* raises ValueError for a path outside the workspace
FeSync ==
    /\ fe.pc = "sync"
    /\ \E no_sync \in BOOLEAN :
          LET ok == IsPrefix(WorkspaceRoot, ZephyrBase(fe.zephyr_base))
          IN  fe' = IF no_sync THEN [fe EXCEPT !.pc = "exec"]
                    ELSE Continue(Called(fe, "sync", ok, <<>>, vm), ok, "exec")
    /\ UNCHANGED <<fixed, vm, guest, mounts, obj, last, hist>>

\* the guest command: west build / west twister; a nonzero exit is log.die
FeExec ==
    /\ fe.pc = "exec"
    /\ \E rc \in {0, 1} :
          /\ vm.state # "Running" => rc # 0
          /\ fe' = Unwind(Called(fe, "exec", rc = 0, <<>>, vm))
    /\ UNCHANGED <<fixed, vm, guest, mounts, obj, last, hist>>

\* finally: if not args.keep_warm: vm.ensure_resources('low')
FeFinally ==
    /\ fe.pc = "finally"
    /\ IF fe.keep_warm
       THEN /\ fe' = [fe EXCEPT !.pc = "exit"]
            /\ UNCHANGED <<vm, obj>>
       ELSE \E F \in FrontScalerFaults :
              LET r == EnsureResources("low", F)
                  fr == [fe EXCEPT !.calls = Append(@, FeCall("ensure_resources", "low", r.ok,
                                                              r.cmds, r.vm))]
              IN  /\ vm' = r.vm
                  /\ obj' = r.obj
                  /\ fe' = [fr EXCEPT !.pc = "exit"]
    /\ UNCHANGED <<fixed, guest, mounts, last, hist>>

InitFront ==
    /\ vm \in {[state |-> s, cpus |-> default_cpus, mem |-> default_memory] :
                 s \in {"absent", "Running"}}
    /\ others = <<[name |-> "primary", state |-> "Stopped"]>>
    /\ guest = IF vm.state = "absent" THEN {} ELSE Components
    /\ arch = "aarch64"
    /\ mounts = <<>>
    /\ host \in HostChoices
    /\ obj = NoTarget
    /\ platform = [canon |-> TRUE]
    /\ fs = NoFiles
    /\ fe = Idle
    /\ last = NoCall
    /\ hist = <<>>
    /\ bashrc = InitialProfile(guest)

\* the steps of an invocation in progress
FeStep == FeScaleUp \/ FeEnsureVm \/ FeMount \/ FeSync \/ FeExec \/ FeFinally

\* the platform's other users act while an invocation runs and between invocations
NextFront == FeStart \/ FeStep \/ (fe.pc # "exit" /\ EnvPower)

SpecFront == InitFront /\ [][NextFront]_vars

\* the interpreter runs an invocation to its end
SpecFrontLive == SpecFront /\ WF_vars(FeStep)

-----------------------------------------------------------------------------
(* Operations of the sync accelerator, with the host and the guest writing files *)

CallSyncToLocal ==
    \E F \in SyncFaults :
        /\ fs' = SyncToLocal(fs, F)
        /\ last' = Call("sync_to_local", "",
                         Result(vm, guest, obj,
                                <<Cmd("mkdir", 0, "", "mkdir" \notin F),
                                  Cmd("rsync", 0, "", "rsync" \notin F)>>, TRUE),
                         <<NoCpus, NoMem>>)
        /\ hist' = Remember(hist, last, vm, 1)
        /\ UNCHANGED <<others, arch, host, platform, bashrc, vm, guest, mounts, obj, fe>>

\* the user creates or removes an entry of the workspace on the host
HostEdit ==
    \E e \in Entries :
        /\ fs' = [fs EXCEPT !.mnt = IF e \in @ THEN @ \ {e} ELSE @ \cup {e}, !.pre = {}]
        /\ last' = [NoCall EXCEPT !.op = "env"]
        /\ hist' = <<>>
        /\ UNCHANGED <<others, arch, host, platform, bashrc, vm, guest, mounts, obj, fe>>

\* a guest command (the build, the test run, python) creates or removes an entry
\* of the local root
GuestWrite ==
    \E e \in Entries :
        /\ fs' = [fs EXCEPT !.loc = IF e \in @ THEN @ \ {e} ELSE @ \cup {e}, !.pre = {}]
        /\ last' = [NoCall EXCEPT !.op = "env"]
        /\ hist' = <<>>
        /\ UNCHANGED <<others, arch, host, platform, bashrc, vm, guest, mounts, obj, fe>>

InitSync ==
    /\ vm \in {[state |-> s, cpus |-> default_cpus, mem |-> default_memory] :
                 s \in {"Running", "Stopped"}}
    /\ others = <<>>
    /\ guest = Components
    /\ arch = "x86_64"
    /\ mounts = <<>>
    /\ host \in {h \in HostChoices : h.cores = 8}
    /\ obj = NoTarget
    /\ platform = [canon |-> TRUE]
    /\ fs = NoFiles
    /\ fe = Idle
    /\ last = NoCall
    /\ hist = <<>>
    /\ bashrc = InitialProfile(guest)

NextSync == CallSyncToLocal \/ HostEdit \/ GuestWrite

SpecSync == InitSync /\ [][NextSync]_vars

-----------------------------------------------------------------------------
(* vtwister pulling its results, with the host and the guest writing files *)

CallPullResults ==
    \E no_sync \in BOOLEAN, F \in SyncFaults :
        /\ fs' = PullResults(fs, no_sync, F)
        /\ last' = Call("pull_results", IF no_sync THEN "no_sync" ELSE "sync",
                         Result(vm, guest, obj, PullResultsLog(no_sync, F), TRUE),
                         <<NoCpus, NoMem>>)
        /\ hist' = Remember(hist, last, vm, 1)
        /\ UNCHANGED <<others, arch, host, platform, bashrc, vm, guest, mounts, obj, fe>>

\* the user, or an earlier run, leaves or removes a file of the workspace on the host
HostEditOut ==
    \E e \in OutEntries :
        /\ fs' = [fs EXCEPT !.mnt = IF e \in @ THEN @ \ {e} ELSE @ \cup {e}, !.pre = {}]
        /\ last' = [NoCall EXCEPT !.op = "env"]
        /\ hist' = <<>>
        /\ UNCHANGED <<others, arch, host, platform, bashrc, vm, guest, mounts, obj, fe>>

\* the test run writes or removes a file of the local root
GuestWriteOut ==
    \E e \in OutEntries :
        /\ fs' = [fs EXCEPT !.loc = IF e \in @ THEN @ \ {e} ELSE @ \cup {e}, !.pre = {}]
        /\ last' = [NoCall EXCEPT !.op = "env"]
        /\ hist' = <<>>
        /\ UNCHANGED <<others, arch, host, platform, bashrc, vm, guest, mounts, obj, fe>>

NextPull == CallPullResults \/ HostEditOut \/ GuestWriteOut \/ CallSyncToLocal

SpecPull == InitSync /\ [][NextPull]_vars

-----------------------------------------------------------------------------
(* Path resolution of vbuild and vtwister: _do_run_internal from the workspace
   mount to the guest command, as a function of the arguments *)

VmLocalRoot == <<"home", "ubuntu", "src">>

\* get_vm_path as a path: under vm_workspace for a path under workspace_root, else
\* /mnt/ext_<fingerprint>
GuestPath(host_path, workspace_root, vm_workspace) ==
    IF IsPrefix(workspace_root, host_path)
    THEN vm_workspace \o SubSeq(host_path, Len(workspace_root) + 1, Len(host_path))
    ELSE <<"mnt", "ext_" \o Join(Fingerprint(PathStr(host_path)))>>

\* get_local_path: relative_to raises ValueError outside the workspace
LocalPathOk(host_path) == IsPrefix(WorkspaceRoot, host_path)
LocalPath(host_path) ==
    VmLocalRoot \o SubSeq(host_path, Len(WorkspaceRoot) + 1, Len(host_path))

RebaseNever(no_sync) == VmWorkspace

\* vm_workspace after the sync step: `vm_workspace = vm_local_root` unless --no-sync;
\* get_vm_path, a closure, reads vm_workspace when it is called
Rebase(no_sync) == IF no_sync THEN VmWorkspace ELSE VmLocalRoot

\* the mount table after get_vm_path on each of the host paths, in order
RECURSIVE MountAll(_, _)
MountAll(mt, paths) ==
    IF paths = <<>> THEN mt
    ELSE MountAll(GetVmPath(mt, Head(paths), WorkspaceRoot, VmWorkspace, {}).mounts,
                  Tail(paths))

NoDir == <<>>

Resolved(cmd, no_sync, dir, ok, source, zb, out, cwd) ==
    [pc |-> IF ok THEN "resolved" ELSE "raised", cmd |-> cmd, no_sync |-> no_sync,
     dir |-> dir, source |-> source, zephyr_base |-> zb, out |-> out, cwd |-> cwd]

Raised(cmd, no_sync, dir) == Resolved(cmd, no_sync, dir, FALSE, <<>>, <<>>, <<>>, <<>>)

\* vbuild, lines 116-142: source dir, ZEPHYR_BASE, working directory, build dir
ResolveVBuild(no_sync, source_dir, zephyr_base, build_dir) ==
    IF ~no_sync /\ ~(LocalPathOk(source_dir) /\ LocalPathOk(zephyr_base))
    THEN Raised("vbuild", no_sync, build_dir)
    ELSE Resolved("vbuild", no_sync, build_dir, TRUE,
                  IF no_sync THEN GuestPath(source_dir, WorkspaceRoot, VmWorkspace)
                  ELSE LocalPath(source_dir),
                  IF no_sync THEN GuestPath(zephyr_base, WorkspaceRoot, VmWorkspace)
                  ELSE LocalPath(zephyr_base),
                  IF build_dir = NoDir
                  THEN <<"home", "ubuntu", "builds", Join(Fingerprint(PathStr(source_dir)))>>
                  ELSE GuestPath(build_dir, WorkspaceRoot, Rebase(no_sync)),
                  Rebase(no_sync))

\* vtwister, lines 94-135: ZEPHYR_BASE, working directory, output dir
ResolveVTwister(no_sync, zephyr_base, outdir) ==
    IF ~no_sync /\ ~(LocalPathOk(zephyr_base) /\ (outdir = NoDir \/ LocalPathOk(outdir)))
    THEN Raised("vtwister", no_sync, outdir)
    ELSE Resolved("vtwister", no_sync, outdir, TRUE, <<>>,
                  IF no_sync THEN GuestPath(zephyr_base, WorkspaceRoot, VmWorkspace)
                  ELSE LocalPath(zephyr_base),
                  IF outdir = NoDir THEN Rebase(no_sync) \o <<"twister-out">>
                  ELSE IF no_sync THEN GuestPath(outdir, WorkspaceRoot, Rebase(no_sync))
                  ELSE LocalPath(outdir),
                  Rebase(no_sync))

SourceDirs == {<<"a", "b", "c">>, <<"etc", "external">>}

FeResolveVBuild ==
    \E no_sync \in BOOLEAN, source_dir \in SourceDirs, z \in {"inside", "outside"},
       build_dir \in HostPaths \cup {NoDir} :
        /\ fe' = ResolveVBuild(no_sync, source_dir, ZephyrBase(z), build_dir)
        /\ mounts' = MountAll(mounts, <<source_dir, ZephyrBase(z)>> \o
                                 (IF build_dir # NoDir /\ fe'.pc = "resolved"
                                  THEN <<build_dir>> ELSE <<>>))
        /\ UNCHANGED <<fixed, vm, guest, obj, last, hist>>

FeResolveVTwister ==
    \E no_sync \in BOOLEAN, z \in {"inside", "outside"}, outdir \in HostPaths \cup {NoDir} :
        /\ fe' = ResolveVTwister(no_sync, ZephyrBase(z), outdir)
        /\ mounts' = MountAll(mounts, <<ZephyrBase(z)>> \o
                                 (IF outdir # NoDir /\ (no_sync \/ LocalPathOk(ZephyrBase(z)))
                                  THEN <<outdir>> ELSE <<>>))
        /\ UNCHANGED <<fixed, vm, guest, obj, last, hist>>

NextResolve == FeResolveVBuild \/ FeResolveVTwister

SpecResolve == InitMount /\ [][NextResolve]_vars

-----------------------------------------------------------------------------
(* The end of vbuild, vtwister and vrun: from the exit of the guest command to
   the exit of the front-end *)

\* the exit codes of the guest command in the model
ExitCodes == {0, 1, 2}

\* log.die(msg): west's log.die ends the process with exit_code, by default 1
log_die_exit_code == 1

\* `if rc != 0: log.die(...)` of vbuild (179-181) and vtwister (178-179): the exit
\* code the command ends with when nothing else is raised
ExitOnRc(rc) == IF rc # 0 THEN log_die_exit_code ELSE 0

\* how an invocation ended: the guest command's exit code, the front-end's exit
\* code, and whether the finally clause raised on the way out
Ended(cmd, rc, keep_warm, code, raised) ==
    [pc |-> "exit", cmd |-> cmd, rc |-> rc, keep_warm |-> keep_warm, code |-> code,
     raised |-> raised]

\* vbuild and vtwister: the guest command, log.die on a nonzero exit, then the
\* finally clause of do_run; an exception of ensure_resources('low') replaces the
\* pending exit and ends the process with the failed command's nonzero exit code
FeEndBracketed ==
    \E cmd \in {"vbuild", "vtwister"}, rc \in ExitCodes, kw \in BOOLEAN,
       F \in FrontScalerFaults, failed \in ExitCodes \ {0} :
        LET r == IF kw THEN Result(vm, guest, obj, <<>>, TRUE) ELSE EnsureResources("low", F)
        IN  /\ vm.state = "Running"
            /\ vm' = r.vm
            /\ obj' = r.obj
            /\ fe' = Ended(cmd, rc, kw, IF r.ok THEN ExitOnRc(rc) ELSE failed, ~r.ok)
            /\ UNCHANGED <<fixed, guest, mounts, last, hist>>

\* vrun, lines 123-125: rc = vm.exec_shell(...); sys.exit(rc)
FeEndVRun ==
    \E rc \in ExitCodes :
        /\ vm.state = "Running"
        /\ fe' = Ended("vrun", rc, TRUE, rc, FALSE)
        /\ UNCHANGED <<fixed, vm, guest, mounts, obj, last, hist>>

NextExit == FeEndBracketed \/ FeEndVRun \/ EnvPower \/ EnvResize

SpecExit == InitScale /\ [][NextExit]_vars

-----------------------------------------------------------------------------
(* The entry of the four front-end commands: do_run up to the end of its first
   call on the VM *)

FrontEnds == {"vbuild", "vtwister", "vrun", "vclean"}

\* shutil.which('multipass'): the path of the executable, or None
WhichChoices == {"none", "/usr/local/bin/multipass"}

IsMultipassInstalledAlways(which) == TRUE

\* is_multipass_installed
IsMultipassInstalled(which) == which # "none"

\* vclean, lines 41-65: get_status; nothing to clean without an instance; else
\* delete_dir, an exec_shell whose exit code is dropped
VClean(F) ==
    IF "list" \in F THEN Result(vm, guest, obj, <<Failed("list")>>, FALSE)
    ELSE IF GetStatus(Inventory) = "not-found"
    THEN Result(vm, guest, obj, <<Ok("list")>>, TRUE)
    ELSE Result(vm, guest, obj,
                <<Ok("list"), Cmd("exec", 0, "rm -rf", vm.state = "Running" /\ "exec" \notin F)>>,
                TRUE)

\* the first call on the VM of each command
FirstCall(cmd, F) ==
    CASE cmd \in {"vbuild", "vtwister"} -> EnsureResources("high", F)
      [] cmd = "vrun"   -> EnsureVM(NoCpus, NoMem, F)
      [] cmd = "vclean" -> VClean(F)

\* do_run: MultipassVM(args.vm_name), a new object with no recorded target; log.die
\* when the CLI is not installed, before anything else
Enter(cmd, which, F) ==
    IF ~IsMultipassInstalled(which) THEN Result(vm, guest, NoTarget, <<>>, FALSE)
    ELSE FirstCall(cmd, F)

EntryFaults == FaultSets({"list", "launch", "start", "stop", "exec"})

FeEnter ==
    \E cmd \in FrontEnds, which \in WhichChoices, F \in EntryFaults :
        LET r == Enter(cmd, which, F)
        IN  /\ vm' = r.vm
            /\ guest' = r.guest
            /\ obj' = IF r.obj = obj THEN NoTarget ELSE r.obj
            /\ mounts' = IF vm.state = "absent" /\ r.vm.state # "absent" THEN <<>> ELSE mounts
            /\ last' = Call(cmd, which, r, <<NoCpus, NoMem>>)
            /\ hist' = Remember(hist, last, vm, 1)
            /\ UNCHANGED <<fixed, fe>>

NextEntry == FeEnter \/ EnvPower \/ EnvResize

SpecEntry == InitScale /\ [][NextEntry]_vars

-----------------------------------------------------------------------------
(* exec_shell and _run_cmd, on a guest command that exits with rc and prints out *)

Returned(value) == [raised |-> FALSE, value |-> value]
RaisedError == [raised |-> TRUE, value |-> ""]

\* a CompletedProcess, as a string: its returncode and its stdout
Completed(rc, out) == ToString(rc) \o ":" \o out

RunCmdNeverRaises(check, rc, out) == Returned(Completed(rc, out))

\* _run_cmd(cmd, check): subprocess.run(..., check=check) raises CalledProcessError on
\* a nonzero exit when check is set, and _run_cmd raises it again
RunCmd(check, rc, out) ==
    IF check /\ rc # 0 THEN RaisedError ELSE Returned(Completed(rc, out))

\* exec_shell(cmd, stream, check)
ExecShell(stream, check, rc, out) ==
    IF stream THEN Returned(ToString(rc))
    ELSE LET result == RunCmd(check, rc, out)
         IN  IF result.raised THEN result
             ELSE IF check THEN Returned(out) ELSE result

Outputs == {"", "zephyr.exe"}

ModeStr(stream, check) ==
    (IF stream THEN "stream" ELSE "capture") \o (IF check THEN ",check" ELSE "")

\* `multipass exec` on an instance that is not running exits nonzero, with no output
CallExecShell ==
    \E stream \in BOOLEAN, check \in BOOLEAN, rc \in ExitCodes, out \in Outputs :
        /\ vm.state # "Running" => (rc # 0 /\ out = "")
        /\ LET x == ExecShell(stream, check, rc, out)
           IN  last' = [Call("exec_shell", ModeStr(stream, check),
                             Result(vm, guest, obj, <<Cmd("exec", rc, out, rc = 0)>>, ~x.raised),
                             <<NoCpus, NoMem>>)
                          EXCEPT !.ret = x.value]
        /\ hist' = Remember(hist, last, vm, 1)
        /\ UNCHANGED <<fixed, vm, guest, mounts, obj, fe>>

NextExec == CallExecShell \/ EnvPower \/ EnvResize

SpecExec == InitScale /\ [][NextExec]_vars

-----------------------------------------------------------------------------
(* get_host_resources over a range of hosts *)

MaxCores == 6

\* host memory sizes, in steps of a quarter GiB
MaxMemSteps == 96

MemStep == GiB \div 4

\* what the host's memory introspection does: it reads a value, raises, runs on a
\* platform that is none of Darwin / Windows / Linux, or finds no value to read
DetectOutcomes == {"ok", "exception", "unsupported", "novalue"}

\* sizes on a step and one MiB short of the next step
HostRange ==
    { [cores |-> c, memMiB |-> k * MemStep + o, detect |-> d] :
        c \in 1..MaxCores, k \in 0..MaxMemSteps, o \in {0, MemStep - 1}, d \in DetectOutcomes }

NoCmds == [vm |-> vm, guest |-> guest, obj |-> obj, cmds |-> <<>>, ok |-> TRUE]

CallGetHostResources ==
    \E profile \in {"low", "high"} :
        /\ last.op = "none"
        /\ last' = Call("get_host_resources", profile, NoCmds, ResolveProfile(profile, host))
        /\ UNCHANGED <<fixed, vm, guest, mounts, obj, fe, hist>>

InitHost ==
    /\ vm = [state |-> "absent", cpus |-> default_cpus, mem |-> default_memory]
    /\ others = <<>>
    /\ guest = {}
    /\ arch = "x86_64"
    /\ mounts = <<>>
    /\ host \in HostRange
    /\ obj = NoTarget
    /\ platform = [canon |-> TRUE]
    /\ fs = NoFiles
    /\ fe = Idle
    /\ last = NoCall
    /\ hist = <<>>
    /\ bashrc = InitialProfile(guest)

NextHost == CallGetHostResources

SpecHost == InitHost /\ [][NextHost]_vars

-----------------------------------------------------------------------------
(* The control flow of the four front-end commands: the calls each do_run makes
   on the VM, one step per call *)

\* what the invocation keeps of a call: the component's operation, its argument,
\* whether it returned normally (for the guest command: whether it exited with 0)
FlowCall(op, arg, ok) == [op |-> op, arg |-> arg, ok |-> ok]

Flow(fr, op, arg, ok) == [fr EXCEPT !.calls = Append(@, FlowCall(op, arg, ok))]

Bracketed == {"vbuild", "vtwister"}

FlowFirstAllScaled(cmd) == "scale_up"

\* the first call of each command after is_multipass_installed
FlowFirst(cmd) ==
    CASE cmd \in Bracketed -> "scale_up"
      [] cmd = "vrun"      -> "ensure_vm"
      [] cmd = "vclean"    -> "probe"

\* an exception or log.die inside _do_run_internal runs the finally clause of
\* vbuild and vtwister; vrun and vclean have none
FlowRaise(fr) == [fr EXCEPT !.pc = IF fr.cmd \in Bracketed THEN "restore" ELSE "exit"]

FlowNext(fr, ok, next) == IF ok THEN [fr EXCEPT !.pc = next] ELSE FlowRaise(fr)

FlowFaults == FaultSets({"list", "start", "mkdir"})

\* a build directory (-d) or output directory (-O) given as an absolute path
\* outside the workspace
FlowBuildDir == <<"tmp", "out">>

\* the sizing arguments of ensure_vm: vrun passes none
FlowArgs(cmd, o) == IF cmd = "vrun" THEN <<NoCpus, NoMem>> ELSE TargetArgs(o)

\* do_run: MultipassVM(args.vm_name); the CLI is installed
FlowStart ==
    /\ fe.pc \in {"idle", "exit"}
    /\ \E cmd \in FrontEnds, kw \in BOOLEAN, zb \in {"unset", "inside", "outside"},
          bd \in {"default", "outside"} :
          /\ cmd \notin Bracketed => ~kw
          /\ cmd = "vclean" => (zb = "inside" /\ bd = "default")
          /\ fe' = [pc |-> FlowFirst(cmd), cmd |-> cmd, keep_warm |-> kw,
                    zephyr_base |-> zb, build_dir |-> bd, synced |-> FALSE, calls |-> <<>>]
    /\ obj' = NoTarget
    /\ UNCHANGED <<fixed, vm, guest, mounts, last, hist>>

\* vbuild, vtwister: vm.ensure_resources('high'), before the try
FlowScaleUp ==
    /\ fe.pc = "scale_up"
    /\ \E F \in FlowFaults :
          LET r == EnsureResources("high", F)
              fr == Flow(fe, "ensure_resources", "high", r.ok)
          IN  /\ vm' = r.vm
              /\ obj' = r.obj
              /\ fe' = [fr EXCEPT !.pc = IF r.ok THEN "ensure_vm" ELSE "exit"]
    /\ UNCHANGED <<fixed, guest, mounts, last, hist>>

\* vclean: vm.get_status(); nothing to clean without an instance
FlowProbe ==
    /\ fe.pc = "probe"
    /\ \E F \in FlowFaults :
          LET ok == "list" \notin F
              fr == Flow(fe, "get_status", "", ok)
          IN  fe' = [fr EXCEPT !.pc = IF ok /\ GetStatus(Inventory) # "not-found"
                                      THEN "exec" ELSE "exit"]
    /\ UNCHANGED <<fixed, vm, guest, mounts, obj, last, hist>>

\* vbuild, vtwister: ZEPHYR_BASE unset is log.die, else vm.ensure_vm with the
\* recorded target.  vrun: vm.ensure_vm(), then ZEPHYR_BASE unset is log.die.
FlowEnsureVm ==
    /\ fe.pc = "ensure_vm"
    /\ IF fe.cmd \in Bracketed /\ fe.zephyr_base = "unset"
       THEN /\ fe' = FlowRaise(fe)
            /\ UNCHANGED <<vm, guest, mounts>>
       ELSE \E F \in FlowFaults :
              LET a == FlowArgs(fe.cmd, obj)
                  r == EnsureVM(a[1], a[2], F)
                  fr == Flow(fe, "ensure_vm", "", r.ok)
                  next == IF fe.cmd \in Bracketed \/ fe.build_dir = "outside"
                          THEN "mount" ELSE "exec"
              IN  /\ vm' = r.vm
                  /\ guest' = r.guest
                  /\ mounts' = IF vm.state = "absent" /\ r.vm.state # "absent"
                                THEN <<>> ELSE mounts
                  /\ fe' = IF fe.cmd = "vrun" /\ fe.zephyr_base = "unset"
                           THEN FlowNext(fr, FALSE, "exit")
                           ELSE FlowNext(fr, r.ok, next)
    /\ UNCHANGED <<fixed, obj, last, hist>>

\* vbuild, vtwister: vm.mount(workspace_root, vm_workspace) and get_vm_path of
\* zephyr_base.  vrun: the mount of a build directory outside the workspace.
FlowMount ==
    /\ fe.pc = "mount"
    /\ \E F1 \in FlowFaults, F2 \in FlowFaults :
          LET r1 == Mount(mounts, WorkspaceRoot, PathStr(VmWorkspace), ExecFaults(F1))
              r2 == GetVmPath(r1.mounts, ZephyrBase(fe.zephyr_base), WorkspaceRoot,
                              VmWorkspace, ExecFaults(F2))
              rb == IF r1.ok THEN r2 ELSE r1
              rr == GetVmPath(mounts, Resolve(FlowBuildDir), WorkspaceRoot, VmWorkspace,
                              ExecFaults(F1))
              r  == IF fe.cmd = "vrun" THEN rr ELSE rb
          IN  /\ mounts' = r.mounts
              /\ fe' = FlowNext(Flow(fe, "mount", "", r.ok), r.ok,
                                IF fe.cmd = "vrun" THEN "exec" ELSE "sync")
    /\ UNCHANGED <<fixed, vm, guest, obj, last, hist>>

\* vbuild, vtwister: sync_to_local and get_local_path unless --no-sync; relative_to
\* raises ValueError for a zephyr_base outside the workspace
FlowSync ==
    /\ fe.pc = "sync"
    /\ \E no_sync \in BOOLEAN :
          LET ok == IsPrefix(WorkspaceRoot, ZephyrBase(fe.zephyr_base))
              next == IF fe.build_dir = "outside" THEN "late_mount" ELSE "exec"
          IN  fe' = IF no_sync THEN [fe EXCEPT !.pc = next]
                    ELSE FlowNext([Flow(fe, "sync", "", ok) EXCEPT !.synced = TRUE], ok, next)
    /\ UNCHANGED <<fixed, vm, guest, mounts, obj, last, hist>>

\* vbuild line 142, vtwister line 130: get_vm_path of an absolute -d / -O outside
\* the workspace mounts it; vtwister's get_local_path then raises when it synced
FlowLateMount ==
    /\ fe.pc = "late_mount"
    /\ \E F \in FlowFaults :
          LET r == GetVmPath(mounts, FlowBuildDir, WorkspaceRoot, VmWorkspace, ExecFaults(F))
              ok == r.ok /\ ~(fe.cmd = "vtwister" /\ fe.synced)
          IN  /\ mounts' = r.mounts
              /\ fe' = FlowNext(Flow(fe, "mount", "late", r.ok), ok, "exec")
    /\ UNCHANGED <<fixed, vm, guest, obj, last, hist>>

\* the guest command: west build, west twister, the binary, rm -rf; it fails on an
\* instance that is not running
FlowExec ==
    /\ fe.pc = "exec"
    /\ \E rc \in {0, 1} :
          /\ vm.state # "Running" => rc # 0
          /\ fe' = FlowRaise(Flow(fe, "exec", "", rc = 0))
    /\ UNCHANGED <<fixed, vm, guest, mounts, obj, last, hist>>

\* vbuild, vtwister, finally: if not args.keep_warm: vm.ensure_resources('low')
FlowRestore ==
    /\ fe.pc = "restore"
    /\ IF fe.keep_warm
       THEN /\ fe' = [fe EXCEPT !.pc = "exit"]
            /\ UNCHANGED <<vm, obj>>
       ELSE \E F \in FlowFaults :
              LET r == EnsureResources("low", F)
                  fr == Flow(fe, "ensure_resources", "low", r.ok)
              IN  /\ vm' = r.vm
                  /\ obj' = r.obj
                  /\ fe' = [fr EXCEPT !.pc = "exit"]
    /\ UNCHANGED <<fixed, guest, mounts, last, hist>>

NextFlow ==
    \/ FlowStart
    \/ FlowScaleUp
    \/ FlowProbe
    \/ FlowEnsureVm
    \/ FlowMount
    \/ FlowSync
    \/ FlowLateMount
    \/ FlowExec
    \/ FlowRestore

SpecFlow == InitFront /\ [][NextFlow]_vars

-----------------------------------------------------------------------------
(* _setup_vm run again and again on a guest, with the login profile *)

\* the file does not grow beyond this many lines in the model
MaxProfileLen == 6

SetupFaults == FaultSets({"helper", "apt", "sdk_download", "uv", "env_sdk_dir", "ccache_size"})

CallSetupVM ==
    \E F \in SetupFaults :
        LET r == SetupVM(Result(vm, guest, obj, <<>>, TRUE), F)
            p == AppendExports(bashrc, r.cmds)
        IN  /\ vm.state = "Running"
            /\ Len(p) <= MaxProfileLen
            /\ guest' = r.guest
            /\ bashrc' = p
            /\ last' = Call("_setup_vm", "", r, <<NoCpus, NoMem>>)
            /\ hist' = Remember(hist, last, vm, 1)
            /\ UNCHANGED <<others, arch, host, platform, fs, vm, mounts, obj, fe>>

\* the user empties the login profile
EnvResetProfile ==
    /\ bashrc # <<>>
    /\ bashrc' = <<>>
    /\ last' = [NoCall EXCEPT !.op = "env"]
    /\ hist' = <<>>
    /\ UNCHANGED <<others, arch, host, platform, fs, vm, guest, mounts, obj, fe>>

InitProfile ==
    /\ vm = [state |-> "Running", cpus |-> default_cpus, mem |-> default_memory]
    /\ others = <<>>
    /\ guest \in {{}, Components}
    /\ arch \in SupportedArch
    /\ mounts = <<>>
    /\ host \in {h \in HostChoices : h.cores = 8}
    /\ obj = NoTarget
    /\ platform = [canon |-> TRUE]
    /\ fs = NoFiles
    /\ fe = Idle
    /\ last = NoCall
    /\ hist = <<>>
    /\ bashrc = InitialProfile(guest)

NextProfile == CallSetupVM \/ EnvTamper \/ EnvResetProfile

SpecProfile == InitProfile /\ [][NextProfile]_vars

-----------------------------------------------------------------------------
(* The end of vrun: from the search for the binary to sys.exit *)

\* the stdout of the search: nothing (the exec failed), or the path of zephyr.exe or
\* zephyr.elf in a build directory whose path may hold "native_sim"
NoExe == [found |-> FALSE, native_sim |-> FALSE, ext |-> ""]

ExeChoices ==
    {NoExe} \cup {[found |-> TRUE, native_sim |-> n, ext |-> e] :
                     n \in BOOLEAN, e \in {"exe", "elf"}}

NetOptions == {"net", "no_net", "auto"}

\* _is_native_sim_binary
IsNativeSimBinary(exe) == exe.native_sim \/ exe.ext = "exe"

\* vrun, lines 109-117
ShouldSetupNetwork(opt, exe) ==
    CASE opt = "net"    -> TRUE
      [] opt = "no_net" -> FALSE
      [] OTHER          -> IsNativeSimBinary(exe)

\* what setup_native_sim_network leaves: its commands, whether it warned, whether
\* it raised
NetResult(cmds, warned, raised) == [cmds |-> cmds, warned |-> warned, raised |-> raised]

SetupNativeSimNetworkFatal(zeth_rc, setup_rc) ==
    IF zeth_rc = 0 THEN NetResult(<<Cmd("ip_link", zeth_rc, "", TRUE)>>, FALSE, FALSE)
    ELSE NetResult(<<Cmd("ip_link", zeth_rc, "", FALSE), Cmd("net_setup", setup_rc, "", setup_rc = 0)>>,
                   FALSE, setup_rc # 0)

\* setup_native_sim_network: `ip link show zeth` exits with zeth_rc, net-setup.sh
\* with setup_rc
SetupNativeSimNetwork(zeth_rc, setup_rc) ==
    IF zeth_rc = 0 THEN NetResult(<<Cmd("ip_link", zeth_rc, "", TRUE)>>, FALSE, FALSE)
    ELSE NetResult(<<Cmd("ip_link", zeth_rc, "", FALSE), Cmd("net_setup", setup_rc, "", setup_rc = 0)>>,
                   setup_rc # 0, FALSE)

\* how vrun ended: what it found, the option, the commands, warned?, the front-end's
\* exit code
RunEnded(exe, opt, cmds, warned, code) ==
    [pc |-> "exit", cmd |-> "vrun", exe |-> exe, opt |-> opt, cmds |-> cmds,
     warned |-> warned, code |-> code]

\* vrun, lines 100-125
VRunTail(exe, opt, zeth_rc, setup_rc, rc) ==
    LET find == <<Cmd("find_exe", 0, exe.ext, exe.found)>>
    IN  IF ~exe.found THEN RunEnded(exe, opt, find, FALSE, log_die_exit_code)
        ELSE LET net == IF ShouldSetupNetwork(opt, exe)
                        THEN SetupNativeSimNetwork(zeth_rc, setup_rc)
                        ELSE NetResult(<<>>, FALSE, FALSE)
             IN  IF net.raised
                 THEN RunEnded(exe, opt, find \o net.cmds, net.warned, 1)
                 ELSE RunEnded(exe, opt, find \o net.cmds \o <<Cmd("run", rc, exe.ext, rc = 0)>>,
                               net.warned, rc)

FeRunVRun ==
    \E exe \in ExeChoices, opt \in NetOptions, zeth_rc \in {0, 1}, setup_rc \in ExitCodes,
       rc \in ExitCodes :
        /\ vm.state # "Running" => ~exe.found
        /\ fe' = VRunTail(exe, opt, zeth_rc, setup_rc, rc)
        /\ UNCHANGED <<fixed, vm, guest, mounts, obj, last, hist>>

NextRun == FeRunVRun \/ EnvPower

SpecRun == InitScale /\ [][NextRun]_vars

-----------------------------------------------------------------------------
(* Two invocations of vbuild on the same instance name, from two workspaces.  Each
   call on the VM is one step; the calls of the two invocations interleave. *)

Invocations == {1, 2}

\* the workspace root each invocation runs in
WorkspaceOf(i) == IF i = 1 THEN WorkspaceRoot ELSE <<"etc", "external">>

MayProceedExclusive(j) == \A i \in Invocations \ {j} : fe[i].pc \in {"idle", "exit"}

\* do_run takes no lock and no lease on the instance: an invocation goes on
\* whatever the others are doing
MayProceed(j) == TRUE

\* after its ensure_vm, before the end of its guest command
InWindow(pc) == pc \in {"mount", "exec"}

\* what a call's commands do to the instance under another invocation
Disturbs(cmds) ==
    {k \in {"stop", "resize", "remount"} :
        \E n \in 1..Len(cmds) :
            /\ cmds[n].ok
            /\ \/ k = "stop" /\ cmds[n].cmd = "stop"
               \/ k = "resize" /\ cmds[n].cmd \in {"set_cpus", "set_mem"}
               \/ k = "remount" /\ cmds[n].cmd = "unmount"}

\* invocation j moves to next after a call that issued cmds; the others inside
\* their window suffer what the commands did
Moved(j, next, cmds) ==
    [i \in Invocations |->
        IF i = j THEN [fe[i] EXCEPT !.pc = next]
        ELSE IF InWindow(fe[i].pc) THEN [fe[i] EXCEPT !.disturbed = @ \cup Disturbs(cmds)]
        ELSE fe[i]]

\* do_run: MultipassVM(args.vm_name), is_multipass_installed
RaceStart(j) ==
    /\ fe[j].pc \in {"idle", "exit"}
    /\ fe' = [fe EXCEPT ![j] = [pc |-> "scale_up", disturbed |-> {}]]
    /\ UNCHANGED <<fixed, vm, guest, mounts, obj, last, hist>>

\* vm.ensure_resources('high')
RaceScaleUp(j) ==
    /\ fe[j].pc = "scale_up" /\ MayProceed(j)
    /\ LET r == EnsureResources("high", {})
       IN  /\ vm' = r.vm
           /\ fe' = Moved(j, "ensure_vm", r.cmds)
    /\ UNCHANGED <<fixed, guest, mounts, obj, last, hist>>

\* vm.ensure_vm(...)
RaceEnsureVm(j) ==
    /\ fe[j].pc = "ensure_vm" /\ MayProceed(j)
    /\ LET r == EnsureVM(NoCpus, NoMem, {})
       IN  /\ vm' = r.vm
           /\ guest' = r.guest
           /\ fe' = Moved(j, "mount", r.cmds)
    /\ UNCHANGED <<fixed, mounts, obj, last, hist>>

\* vm.mount(workspace_root, vm_workspace)
RaceMount(j) ==
    /\ fe[j].pc = "mount" /\ MayProceed(j)
    /\ LET r == Mount(mounts, WorkspaceOf(j), PathStr(VmWorkspace), ExecFaults({}))
       IN  /\ mounts' = r.mounts
           /\ fe' = Moved(j, IF r.ok THEN "exec" ELSE "restore", r.cmds)
    /\ UNCHANGED <<fixed, vm, guest, obj, last, hist>>

\* the guest command runs to its end
RaceExec(j) ==
    /\ fe[j].pc = "exec" /\ MayProceed(j)
    /\ fe' = Moved(j, "restore", <<>>)
    /\ UNCHANGED <<fixed, vm, guest, mounts, obj, last, hist>>

\* finally: vm.ensure_resources('low')
RaceRestore(j) ==
    /\ fe[j].pc = "restore" /\ MayProceed(j)
    /\ LET r == EnsureResources("low", {})
       IN  /\ vm' = r.vm
           /\ fe' = Moved(j, "exit", r.cmds)
    /\ UNCHANGED <<fixed, guest, mounts, obj, last, hist>>

RaceStep(j) ==
    \/ RaceStart(j)
    \/ RaceScaleUp(j)
    \/ RaceEnsureVm(j)
    \/ RaceMount(j)
    \/ RaceExec(j)
    \/ RaceRestore(j)

InitRace ==
    /\ vm \in {[state |-> s, cpus |-> default_cpus, mem |-> default_memory] :
                 s \in {"Running", "Stopped"}}
    /\ others = <<>>
    /\ guest = Components
    /\ arch = "x86_64"
    /\ mounts = <<>>
    /\ host \in {h \in HostChoices : h.cores = 8}
    /\ obj = NoTarget
    /\ platform = [canon |-> TRUE]
    /\ fs = NoFiles
    /\ fe = [i \in Invocations |-> [pc |-> "idle", disturbed |-> {}]]
    /\ last = NoCall
    /\ hist = <<>>
    /\ bashrc = InitialProfile(guest)

NextRace == \E j \in Invocations : RaceStep(j)

SpecRace == InitRace /\ [][NextRace]_vars

-----------------------------------------------------------------------------
(* Claims about the resource scaler, checked under SpecScale *)

ScalerCmds == {"stop", "start", "set_cpus", "set_mem"}

\* the stop / set / start commands of a call, in the order issued
Mutating(cmds) == SelectSeq(cmds, LAMBDA c : c.cmd \in ScalerCmds)

ScaledExisting ==
    last.op = "ensure_resources" /\ last.status # "not-found" /\ last.cmds[1].ok

GetsSucceeded == \A i \in Issued(last.cmds, {"get"}) : last.cmds[i].ok

ExpectedResize(tgt) ==
    <<Ok("stop"), Cmd("set_cpus", tgt[1], "", TRUE), Cmd("set_mem", 0, tgt[2], TRUE), Ok("start")>>

RunningAtLowGoingHigh ==
    /\ ScaledExisting /\ last.arg = "high"
    /\ last.status = "running"
    /\ <<last.pre.cpus, last.pre.mem>> = <<default_cpus, default_memory>>
    /\ last.tgt # <<default_cpus, default_memory>>

\* C5: on an instance running at (2 CPU, 4G), with the high profile resolving to
\* another target, ensure_resources('high') that returns normally has issued
\* exactly stop, set cpus = target, set memory = target, start, in this order
\* (and one that raises has issued a prefix of it, ending in the failed command).
C5_StopSetSetStart ==
    RunningAtLowGoingHigh =>
        IF last.ok
        THEN /\ Mutating(last.cmds) = ExpectedResize(last.tgt)
             /\ vm = [state |-> "Running", cpus |-> last.tgt[1], mem |-> last.tgt[2]]
        ELSE LET m == Mutating(last.cmds)
             IN  m = <<>> \/ ( /\ ~m[Len(m)].ok
                               /\ IsPrefix(SubSeq(m, 1, Len(m) - 1), ExpectedResize(last.tgt)) )

C5_Witness ==
    /\ RunningAtLowGoingHigh /\ last.ok
    /\ last.tgt = <<6, "12G">>
    /\ Len(Mutating(last.cmds)) = 4

\* C7: low, then high, then low on an existing instance, with no external change
\* in between, leaves the CPU count and memory the first low application left.
C7_LowHighLow ==
    ( /\ last.op = "ensure_resources" /\ last.arg = "low" /\ last.ok
      /\ Len(hist) >= 2
      /\ hist[1].arg = "high"
      /\ hist[2].arg = "low" /\ hist[2].ok /\ hist[2].existed )
        => <<vm.cpus, vm.mem>> = <<hist[2].cpus, hist[2].mem>>

C7_Witness ==
    /\ last.op = "ensure_resources" /\ last.arg = "low" /\ last.ok
    /\ Len(hist) >= 2
    /\ hist[1].arg = "high" /\ hist[1].ok /\ <<hist[1].cpus, hist[1].mem>> = <<6, "12G">>
    /\ hist[2].arg = "low" /\ hist[2].ok /\ hist[2].existed
    /\ Len(Mutating(last.cmds)) = 4

-----------------------------------------------------------------------------
(* Claims about the provisioning engine and the status probe, checked under SpecVM *)

ProvisioningCmds == {"setup", "launch", "start"}

CalledEnsureVM == last.op = "ensure_vm" /\ last.cmds[1].ok

\* C1 as stated: an ensure_vm that follows an ensure_vm that returned normally, with
\* no external change in between, enters no provisioning step and issues no launch
\* and no start.
C1_AsStated ==
    (last.op = "ensure_vm" /\ Len(hist) >= 1 /\ hist[1].op = "ensure_vm" /\ hist[1].ok)
        => Issued(last.cmds, ProvisioningCmds) = {}

\* C2 as stated: a mandatory provisioning step (any but the mount-helper workaround)
\* that fails is the last step run, and ensure_vm does not return normally.
C2_AsStated ==
    last.op = "ensure_vm" =>
        \A i \in Issued(last.cmds, {"setup"}) :
            (last.cmds[i].s # "helper" /\ ~last.cmds[i].ok)
                => (i = Len(last.cmds) /\ ~last.ok)

AllRequired == {"west", "cmake", "ninja", "brctl", "uv", "venv", "sdk"}

\* C8: ensure_vm acts on the status.  Absent: launch with the requested (or default)
\* sizing, then provision with no provisioned check.  Stopped: start, then the
\* provisioned check, then provision exactly when it is false.  Running: the check,
\* provision exactly when it is false, and otherwise nothing changes.
C8_BranchOnStatus ==
    CalledEnsureVM =>
        LET c == last.cmds
            wantCpus == IF last.tgt[1] # 0 THEN last.tgt[1] ELSE 2
            wantMem == IF last.tgt[2] # "" THEN last.tgt[2] ELSE "4G"
            provisioned == AllRequired \subseteq last.pg
        IN  CASE last.status = "not-found" ->
                   /\ c[2].cmd = "launch" /\ c[2].n = wantCpus /\ c[2].s = wantMem
                   /\ Issued(c, {"start", "is_setup"}) = {}
                   /\ c[2].ok => (Len(c) >= 3 /\ c[3] = Cmd("setup", 0, "helper", c[3].ok)
                                  /\ <<vm.cpus, vm.mem>> = <<wantCpus, wantMem>>)
                   /\ ~c[2].ok => (Len(c) = 2 /\ ~last.ok /\ vm = last.pre)
              [] last.status = "stopped" ->
                   /\ c[2].cmd = "start" /\ Issued(c, {"launch"}) = {}
                   /\ c[2].ok => ( /\ c[3].cmd = "is_setup" /\ c[3].ok = provisioned
                                   /\ (Issued(c, {"setup"}) # {}) = ~provisioned
                                   /\ provisioned => (Len(c) = 3 /\ last.ok /\ guest = last.pg) )
                   /\ ~c[2].ok => (Len(c) = 2 /\ ~last.ok /\ vm = last.pre)
              [] last.status = "running" ->
                   /\ c[2].cmd = "is_setup" /\ c[2].ok = provisioned
                   /\ Issued(c, {"launch", "start"}) = {}
                   /\ (Issued(c, {"setup"}) # {}) = ~provisioned
                   /\ provisioned => (Len(c) = 2 /\ last.ok /\ guest = last.pg /\ vm = last.pre)
              [] OTHER -> TRUE

C8_Witness ==
    /\ CalledEnsureVM /\ last.status = "stopped" /\ last.ok
    /\ last.pg # {} /\ ~(AllRequired \subseteq last.pg)
    /\ AllRequired \subseteq guest
    /\ vm.state = "Running"

NamedEntries == {i \in 1..Len(Inventory) : Inventory[i].name = vm_name}

\* C9 as stated: get_status answers not-found, stopped or running, whatever state
\* the inventory reports; not-found exactly when no listed instance has the name;
\* so ensure_vm takes one of its three branches.
C9_AsStated ==
    /\ GetStatus(Inventory) \in {"not-found", "stopped", "running"}
    /\ (GetStatus(Inventory) = "not-found") = (NamedEntries = {})
    /\ CalledEnsureVM => Len(last.cmds) >= 2

-----------------------------------------------------------------------------
(* Claims about the path virtualizer, checked under SpecMount *)

OutsidePaths == {"/etc/external", "/opt/zephyr", "/tmp/out"}

ExtGuestPaths == {"/mnt/ext_3f2a91c7", "/mnt/ext_b07e5d14"}

Count(cmds, name) == Cardinality(Issued(cmds, {name}))

AskedOutside == last.op = "get_vm_path" /\ last.arg \in OutsidePaths

Repeated == AskedOutside /\ Len(hist) >= 1 /\ hist[1].op = "get_vm_path"
            /\ hist[1].arg = last.arg /\ hist[1].ok

FirstRequestOneMount ==
    (AskedOutside /\ last.ok) =>
        /\ last.ret \in ExtGuestPaths
        /\ last.ret \notin DOMAIN last.pm
              => (Count(last.cmds, "mount") = 1 /\ Count(last.cmds, "unmount") = 0)

\* C10 as stated: an outside host path gets /mnt/ext_<8 hex digits>; the first
\* request issues exactly one mount command; a repeated request with the same
\* host path, the binding still in the table, issues no mount and no unmount.
C10_AsStated ==
    /\ FirstRequestOneMount
    /\ Repeated => (Count(last.cmds, "mount") = 0 /\ Count(last.cmds, "unmount") = 0)

\* the canonical form of the outside paths, as a string
CanonicalStr(s) ==
    IF s = "/tmp/out" THEN "/private/tmp/out" ELSE IF s = "/lnk/b" THEN "/a/b" ELSE s

\* C10, the part the code keeps: a repeated request is a no-op when the binding
\* records the canonical form of the host path; when it records anything else the
\* repeated request unmounts and mounts again.
C10_RepeatOfCanonicalIsNoOp ==
    /\ FirstRequestOneMount
    /\ Repeated =>
          IF last.ret \in DOMAIN last.pm /\ last.pm[last.ret] = CanonicalStr(last.arg)
          THEN Count(last.cmds, "mount") = 0 /\ Count(last.cmds, "unmount") = 0
               /\ last.ok /\ mounts = last.pm
          ELSE last.ok => (Count(last.cmds, "mount") = 1 /\ Count(last.cmds, "unmount") = 1)

C10_Witness ==
    /\ Repeated /\ last.ok /\ last.arg = "/etc/external"
    /\ last.ret = "/mnt/ext_3f2a91c7"
    /\ Count(last.cmds, "mount") = 0
    /\ mounts["/mnt/ext_3f2a91c7"] = "/etc/external"

-----------------------------------------------------------------------------
(* Claims about the front-ends, checked under SpecFront and SpecFrontLive *)

ScaleCalls(profile) ==
    {i \in 1..Len(fe.calls) :
        fe.calls[i].op = "ensure_resources" /\ fe.calls[i].arg = profile}

HighCalled == ScaleCalls("high") # {}

HighReturned == \E i \in ScaleCalls("high") : fe.calls[i].ok

LowCalled == ScaleCalls("low") # {}

Exited == fe.pc = "exit"

\* C3 as stated: once ensure_resources('high') has been called and keep-warm is not
\* set, the invocation does not end without a call of ensure_resources('low'); with
\* keep-warm set there is no such call.
C3_AsStated ==
    /\ (Exited /\ HighCalled /\ ~fe.keep_warm) => LowCalled
    /\ fe.keep_warm => ~LowCalled

LowOnlyAsLastCall ==
    /\ LowCalled => (Exited /\ ScaleCalls("low") = {Len(fe.calls)})
    /\ (Exited /\ HighReturned /\ ~fe.keep_warm) => LowCalled
    /\ (fe.keep_warm \/ ~HighReturned) => ~LowCalled

\* C3 (amended): once ensure_resources('high') has returned normally and keep-warm
\* is not set, the invocation ends, on every path through _do_run_internal (normal
\* return, ensure_vm or a mount raising, log.die, a nonzero guest command), and ends
\* with exactly one call of ensure_resources('low'), its last call; with keep-warm
\* set, or when ensure_resources('high') itself raised, there is no such call.
C3_LowAfterHighReturned ==
    /\ []LowOnlyAsLastCall
    /\ (HighReturned /\ ~fe.keep_warm /\ ~Exited) ~> (Exited /\ LowCalled)

\* ensure_vm raised in an invocation that had scaled up, and the low profile was
\* still requested
C3_Witness ==
    /\ Exited /\ HighReturned /\ ~fe.keep_warm /\ LowCalled
    /\ \E i \in 1..Len(fe.calls) : fe.calls[i].op = "ensure_vm" /\ ~fe.calls[i].ok

\* the sizing the high profile resolves to on the hosts of the model
HighSizing == IF host.cores = 8 THEN <<6, "12G">> ELSE <<2, "4G">>

AbsentThenEnsureVm(i) ==
    /\ fe.calls[i].op = "ensure_resources" /\ fe.calls[i].arg = "high"
    /\ fe.calls[i].status = "not-found"
    /\ fe.calls[i + 1].op = "ensure_vm" /\ fe.calls[i + 1].status = "not-found"

\* C6: when ensure_resources('high') and then ensure_vm find the instance absent,
\* the two calls issue no stop, start or set command; the only power command is one
\* launch, whose CPU and memory arguments are the resolved high-profile values, and
\* an ensure_vm that returns normally has created the instance at that sizing.
C6_AbsentHighLaunchesAtHigh ==
    \A i \in 1..(Len(fe.calls) - 1) :
        AbsentThenEnsureVm(i) =>
            LET a == fe.calls[i]
                b == fe.calls[i + 1]
            IN  /\ a.ok /\ a.cmds = <<>>
                /\ b.cmds \in {<<>>} \cup
                              {<<Cmd("launch", HighSizing[1], HighSizing[2], ok)>> : ok \in BOOLEAN}
                /\ b.ok => ( /\ b.cmds = <<Cmd("launch", HighSizing[1], HighSizing[2], TRUE)>>
                             /\ b.post = HighSizing )

C6_Witness ==
    /\ Len(fe.calls) >= 2 /\ AbsentThenEnsureVm(1)
    /\ fe.calls[2].ok
    /\ fe.calls[2].cmds = <<Cmd("launch", 6, "12G", TRUE)>>
    /\ fe.pc = "mount"
    /\ vm = [state |-> "Running", cpus |-> 6, mem |-> "12G"]

-----------------------------------------------------------------------------
(* More claims about the path virtualizer, checked under SpecMount *)

\* the guest path and the host path of the last call on the mount table
LastGuest ==
    CASE last.op = "mount" -> "/mnt/workspace_vbuild"
      [] last.op = "get_vm_path" /\ last.arg \in {"/etc/external", "/opt/zephyr"}
            -> "/mnt/ext_3f2a91c7"
      [] last.op = "get_vm_path" /\ last.arg = "/tmp/out" -> "/mnt/ext_b07e5d14"
      [] last.op = "get_vm_path" /\ last.arg = "/lnk/b" -> "/mnt/ext_92eb5ffe"
      [] OTHER -> ""

LastHost ==
    CASE last.op = "mount" /\ last.arg = "/a /mnt/workspace_vbuild" -> "/a"
      [] last.op = "mount" /\ last.arg = "/w /mnt/workspace_vbuild" -> "/w"
      [] OTHER -> last.arg

TableCmds(cmds) == SelectSeq(cmds, LAMBDA c : c.cmd \in {"mount", "unmount"})

BoundToOther ==
    /\ LastGuest \in DOMAIN last.pm
    /\ last.pm[LastGuest] # CanonicalStr(LastHost)

UnmountThenMount ==
    <<Cmd("unmount", 0, LastGuest, TRUE),
      Cmd("mount", 0, LastHost \o " " \o LastGuest, TRUE)>>

\* C11: a mount request for a guest path bound to a different source issues exactly
\* one unmount of the guest path and then exactly one mount (a request that raises
\* has issued a prefix of the two, ending in the command that failed); no mount
\* command is issued for a guest path whose binding has not been removed, and the
\* request leaves the guest path bound to the new source only.
C11_UnmountThenMount ==
    /\ BoundToOther =>
          LET t == TableCmds(last.cmds)
          IN  IF last.ok
              THEN /\ t = UnmountThenMount
                   /\ mounts[LastGuest] =
                         (IF platform.canon THEN CanonicalStr(LastHost) ELSE LastHost)
                   /\ \A g \in DOMAIN last.pm \ {LastGuest} :
                         g \in DOMAIN mounts /\ mounts[g] = last.pm[g]
              ELSE \/ t = <<>>
                   \/ t = <<Cmd("unmount", 0, LastGuest, FALSE)>>
                   \/ t = <<UnmountThenMount[1], [UnmountThenMount[2] EXCEPT !.ok = FALSE]>>
    /\ \A i \in Issued(last.cmds, {"mount"}) :
          LastGuest \in DOMAIN last.pm =>
              \E j \in 1..(i - 1) : last.cmds[j] = Cmd("unmount", 0, LastGuest, TRUE)

C11_Witness ==
    /\ last.op = "mount" /\ last.ok /\ BoundToOther
    /\ last.pm["/mnt/workspace_vbuild"] = "/a"
    /\ mounts["/mnt/workspace_vbuild"] = "/w"
    /\ TableCmds(last.cmds) = UnmountThenMount

\* the host paths of the model that are the workspace root /a or lie in it, and the
\* guest path each one has under the guest workspace root
InsideGuestPath ==
    [x \in {"/a", "/a/b/c", "/lnk/b"} |->
        CASE x = "/a"     -> "/mnt/workspace_vbuild"
          [] x = "/a/b/c" -> "/mnt/workspace_vbuild/b/c"
          [] x = "/lnk/b" -> "/mnt/workspace_vbuild/b"]

AskedInside == last.op = "get_vm_path" /\ last.arg \in DOMAIN InsideGuestPath

\* C12 as stated: for the workspace root or a path in it, get_vm_path returns the
\* guest workspace root joined with the path relative to the workspace root, and
\* issues no command.
C12_AsStated ==
    AskedInside =>
        /\ last.ok /\ last.ret = InsideGuestPath[last.arg]
        /\ last.cmds = <<>> /\ mounts = last.pm

\* C12, the part the code keeps: the same, for a host path that is given in its
\* canonical form.
C12_CanonicalInside ==
    (AskedInside /\ CanonicalStr(last.arg) = last.arg) =>
        /\ last.ok /\ last.ret = InsideGuestPath[last.arg]
        /\ last.cmds = <<>> /\ mounts = last.pm

\* two requests in a row, for two different host paths outside the workspace, both
\* returning normally
TwoOutside ==
    /\ AskedOutside /\ last.ok
    /\ Len(hist) >= 1 /\ hist[1].op = "get_vm_path" /\ hist[1].ok
    /\ hist[1].arg \in OutsidePaths /\ hist[1].arg # last.arg

\* the binding of the first host path is still there, at a guest path other than
\* the one returned for the second
FirstBindingKept ==
    \E g \in DOMAIN last.pm :
        /\ last.pm[g] \in {hist[1].arg, CanonicalStr(hist[1].arg)}
        /\ g # last.ret
        /\ g \in DOMAIN mounts /\ mounts[g] = last.pm[g]

\* C13 as stated: two different host paths outside the workspace get different
\* guest paths, and the request for the second leaves the binding of the first in
\* place.
C13_AsStated == TwoOutside => FirstBindingKept

\* C13, the part the code keeps: the same, for two host paths whose md5 digests
\* differ in their first 8 digits.
C13_DistinctFingerprintsKeepBoth ==
    (TwoOutside /\ {hist[1].arg, last.arg} # {"/etc/external", "/opt/zephyr"})
        => FirstBindingKept

-----------------------------------------------------------------------------
(* Claims about the sync accelerator, checked under SpecSync *)

Synced == last.op = "sync_to_local" /\ last.cmds[2].ok /\ last.pre.state = "Running"

\* some name on the path is a .git directory, a build directory or a *.pyc file
NamedInClaim(e) ==
    \E i \in 1..Len(e.path) :
        \/ e.path[i] \in {Name(".git", ""), Name("build", "")} /\ (i < Len(e.path) \/ e.dir)
        \/ e.path[i][2] = ".pyc"

\* C14 as stated: after a sync_to_local run no .git directory, build directory or
\* *.pyc file, at any depth, is present under the local root.
C14_AsStated == Synced => \A e \in fs.loc : ~NamedInClaim(e)

\* the entries of the model the exclude options keep out of the transfer: the .git
\* and build directories at the root, and the *.pyc file
KeptOut ==
    { Entry(<<Name(".git", "")>>, TRUE),
      Entry(<<Name("build", "")>>, TRUE),
      Entry(<<Name("app", ""), Name("x", ".pyc")>>, FALSE) }

\* C14 (amended): a sync_to_local run copies no .git or build directory at the root
\* of the workspace and no *.pyc file at any depth, and removes none from the local
\* root: such an entry is present after the run exactly if it was present before it
\* (written by a guest command).  Everything else, .git and build directories below
\* the root included, is present after the run exactly if it is present at the source.
C14_ExcludedNeitherCopiedNorDeleted ==
    Synced =>
        \A e \in Entries :
            e \in fs.loc <=> IF e \in KeptOut THEN e \in fs.pre ELSE e \in fs.mnt

C14_Witness ==
    /\ Synced
    /\ KeptOut \subseteq fs.mnt
    /\ Entry(<<Name("zephyr", ""), Name(".git", "")>>, TRUE) \in fs.mnt
    /\ fs.pre = {Entry(<<Name("build", "")>>, TRUE)}
    /\ fs.loc = (fs.mnt \ KeptOut) \cup fs.pre

-----------------------------------------------------------------------------
(* Claims about pulling results, checked under SpecPull *)

PulledWithSync == last.op = "pull_results" /\ last.arg = "sync"

\* C15 as stated: with --pull-results and sync enabled, the mirror from the local
\* copy back into the mounted workspace removes no file of the mounted workspace,
\* and it runs before the results are reported as available on the host.
C15_AsStated ==
    PulledWithSync =>
        /\ fs.pre \subseteq fs.mnt
        /\ \A i \in Issued(last.cmds, {"rsync"}), j \in Issued(last.cmds, {"report"}) : i < j
        /\ Issued(last.cmds, {"rsync"}) # {}

\* C15, the part the code keeps: the reverse mirror runs before the report, and it
\* touches nothing outside the output directory.
C15_MirrorBeforeReport ==
    PulledWithSync =>
        /\ fs.pre \ Under(OutDir, fs.pre) = fs.mnt \ Under(OutDir, fs.mnt)
        /\ \A i \in Issued(last.cmds, {"rsync"}), j \in Issued(last.cmds, {"report"}) : i < j
        /\ Issued(last.cmds, {"rsync"}) # {}

-----------------------------------------------------------------------------
(* Claims about path resolution, checked under SpecResolve *)

ResolvedAfterMirror == fe.pc = "resolved" /\ ~fe.no_sync

\* the guest paths the operation resolved: source dir (vbuild), build-tool base,
\* user-supplied build dir or output dir, working directory
ResolvedPaths ==
    {fe.zephyr_base, fe.cwd}
        \cup (IF fe.cmd = "vbuild" THEN {fe.source} ELSE {})
        \cup (IF fe.dir # NoDir \/ fe.cmd = "vtwister" THEN {fe.out} ELSE {})

\* C16 as stated: in an operation that mirrored the workspace, every guest path
\* resolved after the mirror step is under /home/ubuntu/src and none is under
\* /mnt/workspace_vbuild.
C16_AsStated ==
    ResolvedAfterMirror =>
        \A q \in ResolvedPaths : IsPrefix(VmLocalRoot, q) /\ ~IsPrefix(VmWorkspace, q)

\* C16 (amended): in an operation that mirrored the workspace, the working
\* directory is /home/ubuntu/src, and the source dir, the build-tool base and a
\* build or output dir given as a path under the workspace root resolve to the same
\* relative path under /home/ubuntu/src; a build dir of vbuild given as any other
\* path resolves to its own mount /mnt/ext_<fingerprint> (vtwister raises for such
\* an output dir); no resolved path is under /mnt/workspace_vbuild.
C16_RebasedOrOwnMount ==
    ResolvedAfterMirror =>
        /\ fe.cwd = <<"home", "ubuntu", "src">>
        /\ fe.zephyr_base = <<"home", "ubuntu", "src", "b", "c">>
        /\ fe.cmd = "vbuild" => fe.source = <<"home", "ubuntu", "src", "b", "c">>
        /\ CASE fe.dir = NoDir -> fe.cmd = "vtwister" => fe.out = fe.cwd \o <<"twister-out">>
             [] fe.dir = <<"a">> -> fe.out = <<"home", "ubuntu", "src">>
             [] fe.dir = <<"a", "b", "c">> -> fe.out = <<"home", "ubuntu", "src", "b", "c">>
             [] OTHER ->
                  /\ fe.cmd = "vbuild"
                  /\ PathStr(fe.out) \in {"/mnt/ext_3f2a91c7", "/mnt/ext_b07e5d14",
                                           "/mnt/ext_92eb5ffe"}
                  /\ PathStr(fe.out) \in DOMAIN mounts
        /\ \A q \in ResolvedPaths : ~IsPrefix(VmWorkspace, q)

C16_Witness ==
    /\ ResolvedAfterMirror /\ fe.cmd = "vbuild"
    /\ fe.dir = <<"etc", "external">>
    /\ fe.out = <<"mnt", "ext_3f2a91c7">>
    /\ fe.cwd = <<"home", "ubuntu", "src">>
    /\ "/mnt/ext_3f2a91c7" \in DOMAIN mounts

-----------------------------------------------------------------------------
(* Claims about the exit of the front-ends, checked under SpecExit *)

GuestCommandFailed == fe.pc = "exit" /\ fe.rc # 0

\* C17 as stated: when the guest command of vbuild, vtwister or vrun exits with a
\* nonzero code rc, the front-end ends with the exit code rc.
C17_AsStated == GuestCommandFailed => fe.code = fe.rc

\* C17, the part the code keeps: vrun ends with rc; vbuild and vtwister end with a
\* nonzero exit code, 1 unless the finally clause raised.
C17_VRunPropagates ==
    GuestCommandFailed =>
        /\ fe.code # 0
        /\ fe.cmd = "vrun" => fe.code = fe.rc
        /\ (fe.cmd # "vrun" /\ ~fe.raised) => fe.code = 1

-----------------------------------------------------------------------------
(* More claims about the provisioning engine, checked under SpecVM *)

ProvisionedOnUnsupported ==
    /\ last.op = "ensure_vm"
    /\ arch \notin {"x86_64", "aarch64"}
    /\ \E i \in Issued(last.cmds, {"setup"}) : last.cmds[i].s = "sdk"

LaterSteps == {"uv", "venv", "west", "env_toolchain", "env_sdk_dir", "env_path",
               "ccache_size", "ccache_dir"}

\* C18 as stated: when provisioning runs in a guest of an unsupported architecture,
\* ensure_vm raises and no step after the SDK install is run, whether or not the
\* SDK directory exists.
C18_AsStated ==
    ProvisionedOnUnsupported =>
        /\ ~last.ok
        /\ \A i \in Issued(last.cmds, {"setup"}) : last.cmds[i].s \notin LaterSteps

\* C18, the part the code keeps: the same, in a guest without an SDK directory.
C18_FatalWithoutSdkDir ==
    (ProvisionedOnUnsupported /\ ("sdk" \notin last.pg \/ last.status = "not-found")) =>
        /\ ~last.ok
        /\ \A i \in Issued(last.cmds, {"setup"}) : last.cmds[i].s \notin LaterSteps

-----------------------------------------------------------------------------
(* Claims about the entry of the front-ends, checked under SpecEntry *)

EnteredWithoutCli ==
    last.op \in {"vbuild", "vtwister", "vrun", "vclean"} /\ last.arg = "none"

\* C19: in vbuild, vtwister, vrun and vclean, when the multipass CLI is not
\* installed the command aborts having issued no command at all (no list, launch,
\* start, stop, set, mount or exec), and the instance, the guest, the mount table
\* and the object's recorded target are as they were.
C19_AbortBeforeAnyCommand ==
    EnteredWithoutCli =>
        /\ ~last.ok /\ last.cmds = <<>>
        /\ vm = last.pre /\ guest = last.pg /\ mounts = last.pm /\ obj = NoTarget

C19_Witness ==
    /\ EnteredWithoutCli /\ last.op = "vclean"
    /\ last.pre.state = "Running" /\ last.cmds = <<>> /\ ~last.ok

-----------------------------------------------------------------------------
(* Claims about exec_shell, checked under SpecExec *)

RcStr == [rc \in {0, 1, 2} |-> CASE rc = 0 -> "0" [] rc = 1 -> "1" [] rc = 2 -> "2"]

\* C20: exec_shell with stream=True returns the exit code and never raises on a
\* nonzero exit; with stream=False and check=True it returns the captured output on
\* exit 0 and raises on every nonzero exit; with stream=False and check=False it
\* returns the captured result (exit code and output) for every exit status and
\* never raises on a nonzero exit.
C20_ThreeResultModes ==
    last.op = "exec_shell" =>
        LET rc  == last.cmds[1].n
            out == last.cmds[1].s
        IN  CASE last.arg \in {"stream", "stream,check"} ->
                   last.ok /\ last.ret = RcStr[rc]
              [] last.arg = "capture,check" ->
                   IF rc = 0 THEN last.ok /\ last.ret = out ELSE ~last.ok
              [] last.arg = "capture" ->
                   last.ok /\ last.ret = RcStr[rc] \o ":" \o out

C20_Witness ==
    /\ last.op = "exec_shell" /\ last.arg = "capture"
    /\ last.cmds[1].n = 2 /\ last.ok /\ last.ret = "2:zephyr.exe"

-----------------------------------------------------------------------------
(* Claims about the host's resources, checked under SpecHost *)

ResolvedHigh == last.op = "get_host_resources" /\ last.arg = "high"

\* four times max(4 GiB, min(0.75 * t, t - 4 GiB)), in MiB, with no division
FourTimesSafeMemory(t) == Max(16 * GiB, Min(3 * t, 4 * t - 16 * GiB))

\* (cpus, memory) is the sizing the formula gives for c cores and t MiB: memory is
\* "<g>G" for the whole number g of GiB at or below the safe memory
IsHighSizing(sizing, c, t) ==
    /\ sizing[1] >= 2 /\ sizing[1] >= c - 2 /\ sizing[1] \in {2, c - 2}
    /\ \E g \in 0..(MaxMemSteps + 4) :
          /\ sizing[2] = MemStr(g)
          /\ 4 * g * GiB <= FourTimesSafeMemory(t)
          /\ FourTimesSafeMemory(t) < 4 * (g + 1) * GiB

\* C21: the high profile resolves to cpus = max(2, cores - 2) and memory =
\* max(4 GiB, min(0.75 * total, total - 4 GiB)) floored to whole GiB, for every core
\* count and memory size; when the memory introspection fails (exception, unsupported
\* platform, no value found) the result is the one of an 8 GiB host.
C21_HighProfileFormula ==
    ResolvedHigh =>
        IF host.detect = "ok"
        THEN IsHighSizing(last.tgt, host.cores, host.memMiB)
        ELSE IsHighSizing(last.tgt, host.cores, 8 * GiB)

\* a host above the crossing of the two caps whose safe memory is not a whole GiB
C21_Witness ==
    /\ ResolvedHigh
    /\ host.detect = "ok" /\ host.cores = MaxCores
    /\ host.memMiB = 18 * GiB - 1 /\ last.tgt = <<MaxCores - 2, "13G">>

\* the introspection finds no value: the sizing of an 8 GiB host
C21_FallbackReached ==
    ResolvedHigh /\ host.detect = "novalue" /\ host.cores = 1 /\ last.tgt = <<2, "4G">>

-----------------------------------------------------------------------------
(* More claims about the resource scaler, checked under SpecScale *)

SetCmds == {"set_cpus", "set_mem"}

\* the power state after the commands cmds, from the power state s
RECURSIVE PowerAfter(_, _)
PowerAfter(s, cmds) ==
    IF cmds = <<>> THEN s
    ELSE LET c == Head(cmds)
             t == IF c.ok /\ c.cmd = "stop" THEN "Stopped"
                  ELSE IF c.ok /\ c.cmd = "start" THEN "Running"
                  ELSE s
         IN  PowerAfter(t, Tail(cmds))

\* the power state in which the i-th command of the last call was issued
PowerAt(i) == PowerAfter(last.pre.state, SubSeq(last.cmds, 1, i - 1))

SetsIssued == Issued(last.cmds, SetCmds)

\* C22 as stated: in every execution of ensure_resources, each set command is
\* issued while the instance is not running, after a stop if the instance was
\* running, and is followed by a start.
C22_AsStated ==
    last.op = "ensure_resources" =>
        \A i \in SetsIssued :
            /\ PowerAt(i) # "Running"
            /\ last.pre.state = "Running" =>
                  \E j \in 1..(i - 1) : last.cmds[j].cmd = "stop"
            /\ \E k \in (i + 1)..Len(last.cmds) : last.cmds[k].cmd = "start"

\* the part of C22 that holds with failing commands too: no set command is issued
\* while the instance is running, and a running instance is stopped first
C22_NoSetWhileRunning ==
    last.op = "ensure_resources" =>
        \A i \in SetsIssued :
            /\ PowerAt(i) # "Running"
            /\ last.pre.state = "Running" =>
                  \E j \in 1..(i - 1) : last.cmds[j].cmd = "stop" /\ last.cmds[j].ok

\* a running instance is stopped, its CPU count is set, and the memory set fails
C22_SetNotFollowedByStart ==
    /\ last.op = "ensure_resources" /\ last.pre.state = "Running"
    /\ \E i \in SetsIssued : last.cmds[i].ok
    /\ Issued(last.cmds, {"start"}) = {}
    /\ ~last.ok /\ vm.state = "Stopped"

-----------------------------------------------------------------------------
(* Claims about the control flow of the front-ends, checked under SpecFlow *)

\* the place of a call in the order scale up, VM lifecycle, mounts, sync, guest
\* command, restore
Stage(c) ==
    CASE c.op = "ensure_resources" /\ c.arg = "high" -> 1
      [] c.op \in {"ensure_vm", "get_status"}       -> 2
      [] c.op = "mount"                              -> 3
      [] c.op = "sync"                               -> 4
      [] c.op = "exec"                               -> 5
      [] c.op = "ensure_resources" /\ c.arg = "low"  -> 6

Stages == [i \in 1..Len(fe.calls) |-> Stage(fe.calls[i])]

GuestStages == {3, 4, 5}

\* the VM lifecycle step (ensure_vm) has completed before the i-th call
LifecycleDoneBefore(i) ==
    \E j \in 1..(i - 1) : fe.calls[j].op = "ensure_vm" /\ fe.calls[j].ok

RanGuestCommand == fe.pc = "exit" /\ \E i \in 1..Len(fe.calls) : fe.calls[i].op = "exec"

\* C23 as stated: every front-end operation that runs its guest command goes
\* through scale up, VM lifecycle, mounts, optional sync, guest command and (unless
\* kept warm) restore, in this order, and runs no guest command before the VM
\* lifecycle step has completed.
C23_AsStated ==
    (fe.pc # "idle" /\ RanGuestCommand) =>
        /\ Stages \in { <<1, 2, 3, 5>> \o tail : tail \in {<<>>, <<6>>} }
                 \cup { <<1, 2, 3, 4, 5>> \o tail : tail \in {<<>>, <<6>>} }
        /\ Stages[Len(Stages)] = 6 <=> ~fe.keep_warm
        /\ \A i \in 1..Len(fe.calls) : Stages[i] \in GuestStages => LifecycleDoneBefore(i)

\* the calls that may follow one another in vbuild and vtwister
BracketedSteps ==
    { <<1, 2>>, <<1, 6>>, <<2, 3>>, <<2, 6>>, <<3, 4>>, <<3, 5>>, <<3, 3>>, <<3, 6>>,
      <<4, 5>>, <<4, 3>>, <<4, 6>>, <<5, 6>> }

\* ... in vrun: ensure_vm, the mount of an outside build directory, the binary
VRunSteps == { <<2, 3>>, <<2, 5>>, <<3, 5>> }

\* ... in vclean: the status probe, then rm -rf
VCleanSteps == { <<2, 5>> }

StepsOf(cmd) ==
    CASE cmd \in Bracketed -> BracketedSteps
      [] cmd = "vrun"      -> VRunSteps
      [] cmd = "vclean"    -> VCleanSteps

FirstStageOf(cmd) == IF cmd \in Bracketed THEN 1 ELSE 2

\* C23 (amended): vbuild and vtwister call scale up, ensure_vm, the mounts, the
\* optional sync, the guest command and the restore in this order, with one more
\* mount after the sync for an absolute build or output directory outside the
\* workspace; vrun calls ensure_vm, at most one mount and the guest command, with
\* no scaling and no sync; vclean calls the status probe and the guest command only,
\* without ensure_vm.  In vbuild, vtwister and vrun no guest command runs before
\* ensure_vm has returned normally.
C23_FlowPerFrontEnd ==
    fe.pc # "idle" =>
        /\ Len(Stages) > 0 => Stages[1] = FirstStageOf(fe.cmd)
        /\ \A i \in 1..(Len(Stages) - 1) : <<Stages[i], Stages[i + 1]>> \in StepsOf(fe.cmd)
        /\ \A i \in 1..(Len(Stages) - 1) :
              (Stages[i] >= Stages[i + 1]) =>
                  (fe.build_dir = "outside" /\ fe.calls[i + 1].arg = "late")
        /\ fe.cmd # "vclean" =>
              \A i \in 1..Len(Stages) : Stages[i] \in GuestStages => LifecycleDoneBefore(i)
        /\ fe.cmd = "vclean" => \A i \in 1..Len(Stages) : fe.calls[i].op # "ensure_vm"
        /\ (fe.cmd \in Bracketed /\ RanGuestCommand) =>
              (Stages[Len(Stages)] = 6 <=> ~fe.keep_warm)

\* vrun has run the binary of a build directory outside the workspace
C23_Witness ==
    /\ fe.pc = "exit" /\ fe.cmd = "vrun"
    /\ Stages = <<2, 3, 5>>
    /\ fe.calls[3].ok

\* vclean runs rm -rf in the guest of a stopped instance, with no ensure_vm
C23_CleanWithoutLifecycle ==
    /\ fe.pc = "exit" /\ fe.cmd = "vclean" /\ Stages = <<2, 5>> /\ vm.state = "Stopped"

\* vbuild mounts an outside build directory after the sync
C23_MountAfterSync ==
    /\ fe.pc = "exit" /\ fe.cmd = "vbuild" /\ Stages = <<1, 2, 3, 4, 3, 5, 6>>

-----------------------------------------------------------------------------
(* Claims about repeated provisioning, checked under SpecProfile *)

AllOk(cmds) == \A i \in 1..Len(cmds) : cmds[i].ok

\* a _setup_vm in which every command succeeded
FullSetup(c) == c.op = "_setup_vm" /\ c.ok /\ AllOk(c.cmds)

\* C24: full provisioning is idempotent: a _setup_vm run right after a _setup_vm on
\* the same guest leaves the installed components and the contents of the login
\* profile as the first run left them.
C24_AsStated ==
    [][(FullSetup(last) /\ FullSetup(last'))
          => (guest' = guest /\ bashrc' = bashrc)]_vars

\* the part that holds: the second run leaves the installed components as they were
C24_ComponentsIdempotent ==
    [][(FullSetup(last) /\ FullSetup(last')) => guest' = guest]_vars

\* after two runs on a new guest the profile holds each export twice
C24_ExportsTwice ==
    /\ FullSetup(last) /\ Len(hist) = 1 /\ hist[1].op = "_setup_vm" /\ hist[1].ok
    /\ guest = Components
    /\ bashrc = InitialProfile(Components) \o InitialProfile(Components)

-----------------------------------------------------------------------------
(* Claims about the mount-helper workaround, checked under SpecVM *)

HelperFailedAt == {i \in Issued(last.cmds, {"setup"}) :
                       last.cmds[i].s = "helper" /\ ~last.cmds[i].ok}

\* the provisioning commands after the mount-helper workaround
AfterHelper ==
    LET h == CHOOSE i \in HelperFailedAt : TRUE
    IN  SubSeq(last.cmds, h + 1, Len(last.cmds))

StepNames(cmds) == [i \in 1..Len(cmds) |-> cmds[i].s]

StepsAfterHelper == <<"apt", "sdk", "uv", "venv", "west", "env_toolchain", "env_sdk_dir",
                "env_path", "ccache_size", "ccache_dir">>

\* C25: a failure of the mount-helper workaround does not abort provisioning: the
\* next steps are attempted, every later step is attempted when ensure_vm returns
\* normally, and ensure_vm returns normally when the later steps succeed.
C25_HelperFailureDoesNotAbort ==
    (last.op = "ensure_vm" /\ HelperFailedAt # {}) =>
        /\ Len(AfterHelper) >= 2
        /\ IsPrefix(StepNames(AfterHelper), StepsAfterHelper)
             \/ StepNames(AfterHelper) = <<"apt", "sdk", "verify_sdk">>
        /\ AllOk(AfterHelper) => (last.ok /\ StepNames(AfterHelper) = StepsAfterHelper)
        /\ last.ok => StepNames(AfterHelper) = StepsAfterHelper

\* the workaround failed on a new instance, and ensure_vm provisioned it
C25_Witness ==
    /\ last.op = "ensure_vm" /\ HelperFailedAt # {}
    /\ last.status = "not-found" /\ last.ok
    /\ AllOk(AfterHelper) /\ StepNames(AfterHelper) = StepsAfterHelper
    /\ AllRequired \subseteq guest

-----------------------------------------------------------------------------
(* Claims about the end of vrun, checked under SpecRun *)

NetSetupFailedAt == {i \in Issued(fe.cmds, {"net_setup"}) : ~fe.cmds[i].ok}

\* C26: in vrun a failed native-sim network setup is a warning only: the binary is
\* still executed in the guest, after the setup, and the exit code of vrun is the
\* exit code of the binary.
C26_NetworkFailureIsWarning ==
    (fe.pc = "exit" /\ fe.cmd = "vrun" /\ NetSetupFailedAt # {}) =>
        /\ fe.warned
        /\ \A i \in NetSetupFailedAt :
              /\ Len(fe.cmds) = i + 1
              /\ fe.cmds[i + 1].cmd = "run"
              /\ fe.code = fe.cmds[i + 1].n

\* net-setup.sh exits with 2, zephyr.exe is run and exits with 0: vrun exits with 0
C26_Witness ==
    /\ fe.pc = "exit" /\ fe.cmd = "vrun" /\ fe.opt = "auto" /\ fe.exe.ext = "exe"
    /\ \E i \in NetSetupFailedAt : fe.cmds[i].n = 2
    /\ fe.cmds[Len(fe.cmds)] = Cmd("run", 0, "exe", TRUE)
    /\ fe.code = 0 /\ fe.warned

-----------------------------------------------------------------------------
(* Claims about concurrent invocations, checked under SpecRace *)

\* the calls of an invocation that stop the instance, resize it or rebind a mount
Disturbing(j) ==
    \/ fe[j].pc = "scale_up" /\ RaceScaleUp(j)
    \/ fe[j].pc = "mount" /\ RaceMount(j)
    \/ fe[j].pc = "restore" /\ RaceRestore(j)

\* C27: nothing keeps an invocation from stopping or resizing the instance, or from
\* rebinding the workspace mount, while another invocation is between its ensure_vm
\* and the end of its guest command: its next call is enabled whatever the position
\* of the other.
C27_NothingPreventsInterference ==
    \A i \in Invocations, j \in Invocations :
        (i # j /\ InWindow(fe[i].pc) /\ fe[j].pc \in {"scale_up", "mount", "restore"})
            => ENABLED Disturbing(j)

\* the interleaving: invocation 1 has ended its guest command; since its ensure_vm
\* invocation 2 has stopped and resized the instance and rebound the workspace mount
C27_Witness ==
    /\ fe[1].pc = "restore"
    /\ fe[1].disturbed = {"stop", "resize", "remount"}
    /\ mounts[PathStr(VmWorkspace)] = PathStr(WorkspaceOf(2))

-----------------------------------------------------------------------------
(* Claims about a failed resize, checked under SpecScale *)

ScaledRunning == last.op = "ensure_resources" /\ last.pre.state = "Running"

\* C28 as stated: whenever ensure_resources ends on an instance that was running
\* when it was called, by a normal return or by raising, the instance is running.
C28_AsStated == ScaledRunning => vm.state = "Running"

\* the part that holds: after a normal return the instance is running
C28_RunningAfterNormalReturn == (ScaledRunning /\ last.ok) => vm.state = "Running"

\* the stop succeeded, a set or the start failed, ensure_resources raised
C28_LeftStopped ==
    /\ ScaledRunning /\ ~last.ok /\ vm.state = "Stopped"
    /\ \E i \in Issued(last.cmds, {"stop"}) : last.cmds[i].ok
    /\ ~last.cmds[Len(last.cmds)].ok
    /\ last.cmds[Len(last.cmds)].cmd \in {"set_cpus", "set_mem", "start"}


ReturnedOnExisting ==
    /\ last.op = "ensure_resources" /\ last.ok
    /\ last.status \in {"stopped", "running"}

ChangeApplied == SetsIssued # {}

-----------------------------------------------------------------------------
(* More claims about path resolution, checked under SpecResolve *)

\* an operation with the sync enabled and no -d / -O: the source directory and the
\* build-tool base are the only host paths it resolves
SyncedPlain == fe.pc \in {"resolved", "raised"} /\ ~fe.no_sync /\ fe.dir = NoDir

\* C30 as stated: with the sync enabled, for every source directory and build-tool
\* base, inside or outside the workspace, path resolution after the mirror step
\* yields guest paths and the operation goes on to its guest command.
C30_AsStated == SyncedPlain => fe.pc = "resolved"

\* the part that holds: path resolution raises only with the sync enabled
C30_NoSyncNeverRaises == fe.pc = "raised" => ~fe.no_sync

\* the outside path was mounted on demand, then get_local_path raised
C30_RaisedAfterMount ==
    /\ SyncedPlain /\ fe.pc = "raised" /\ fe.cmd = "vbuild"
    /\ "/mnt/ext_3f2a91c7" \in DOMAIN mounts

====
